---------------------------- MODULE Spec2Model ----------------------------
(* Model of the annotate-snippets renderer (src/src/renderer/mod.rs):      *)
(* Renderer::render_snippet_annotations walking the annotated lines of one *)
(* source excerpt, Renderer::render_source_line and Renderer::draw_line    *)
(* drawing onto the styled canvas.                                         *)
(*                                                                         *)
(* Characters are one-element strings.  "a" is a narrow letter, " " a      *)
(* space, "W" a wide (two column) character such as an emoji, "TAB" the    *)
(* tabulation character.  Box-drawing glyphs of the Unicode theme are      *)
(* written by code point, e.g. "U+2503".                                   *)
EXTENDS Integers, Sequences, FiniteSets, TLC

(***************************************************************************)
(* Generic helpers                                                         *)
(***************************************************************************)
\* TLC evaluates a definition where it is first used; this evaluates x at
\* the place the code computes it
Evaluated(x) == x = x

Max2(a, b) == IF a >= b THEN a ELSE b
Min2(a, b) == IF a <= b THEN a ELSE b
\* usize::saturating_sub
SatSub(a, b) == IF a >= b THEN a - b ELSE 0
\* usize::abs_diff
AbsDiff(a, b) == IF a >= b THEN a - b ELSE b - a
\* least and greatest element of a set of numbers, dflt for the empty set
MinOf(S, dflt) == IF S = {} THEN dflt ELSE CHOOSE x \in S : \A y \in S : x <= y
MaxOf(S, dflt) == IF S = {} THEN dflt ELSE CHOOSE x \in S : \A y \in S : y <= x
Rep(x, n) == [i \in 1..n |-> x] \o <<>>
Take(s, n) == SubSeq(s, 1, Min2(n, Len(s)))
Drop(s, n) == SubSeq(s, Min2(n, Len(s)) + 1, Len(s))

(***************************************************************************)
(* Program constants                                                       *)
(***************************************************************************)
ANONYMIZED_LINE_NUM == <<"L", "L">>
DEFAULT_TERM_WIDTH == 140
MAX_DIGITS == 20
ELLIPSIS_PASSING == 6
LONG_WHITESPACE == 20
LONG_WHITESPACE_PADDING == 4
\* value of a wrapped (underflowed) usize subtraction: larger than any column
USIZE_WRAPPED == 1000000

(***************************************************************************)
(* Character widths and whitespace normalisation                           *)
(***************************************************************************)
is_whitespace(ch) == ch \in {" ", "TAB"}

\* the characters of the model that are not plain letters, by code point:
\* the control and text-flow characters, the space, the line break and a
\* wide character
CODE_POINTS ==
  ("U+0000" :> 0) @@ ("U+0001" :> 1) @@ ("U+0002" :> 2) @@ ("U+0003" :> 3)
    @@ ("U+0004" :> 4) @@ ("U+0005" :> 5) @@ ("U+0006" :> 6) @@ ("U+0007" :> 7)
    @@ ("U+0008" :> 8) @@ ("TAB" :> 9) @@ ("U+000B" :> 11) @@ ("U+000C" :> 12)
    @@ ("U+000D" :> 13) @@ ("U+000E" :> 14) @@ ("U+000F" :> 15) @@ ("U+0010" :> 16)
    @@ ("U+0011" :> 17) @@ ("U+0012" :> 18) @@ ("U+0013" :> 19) @@ ("U+0014" :> 20)
    @@ ("U+0015" :> 21) @@ ("U+0016" :> 22) @@ ("U+0017" :> 23) @@ ("U+0018" :> 24)
    @@ ("U+0019" :> 25) @@ ("U+001A" :> 26) @@ ("U+001B" :> 27) @@ ("U+001C" :> 28)
    @@ ("U+001D" :> 29) @@ ("U+001E" :> 30) @@ ("U+001F" :> 31) @@ ("U+007F" :> 127)
    @@ ("U+200D" :> 8205) @@ ("U+202A" :> 8234) @@ ("U+202B" :> 8235) @@ ("U+202C" :> 8236)
    @@ ("U+202D" :> 8237) @@ ("U+202E" :> 8238) @@ ("U+2066" :> 8294) @@ ("U+2067" :> 8295)
    @@ ("U+2068" :> 8296) @@ ("U+2069" :> 8297) @@ ("LF" :> 10) @@ (" " :> 32)
    @@ ("W" :> 128512)

\* the code point of a character; a letter, a digit or a sign stands for
\* any character that is none of the above
code_point(ch) == IF ch \in DOMAIN CODE_POINTS THEN CODE_POINTS[ch] ELSE 97

\* a fault: the entry of the tab placed after the control characters
OUTPUT_REPLACEMENTS_TAB_LAST ==
  <<[key |-> 0, to |-> <<"U+2400">>], [key |-> 1, to |-> <<"U+2401">>],
    [key |-> 2, to |-> <<"U+2402">>], [key |-> 3, to |-> <<"U+2403">>],
    [key |-> 4, to |-> <<"U+2404">>], [key |-> 5, to |-> <<"U+2405">>],
    [key |-> 6, to |-> <<"U+2406">>], [key |-> 7, to |-> <<"U+2407">>],
    [key |-> 8, to |-> <<"U+2408">>], [key |-> 11, to |-> <<"U+240B">>],
    [key |-> 12, to |-> <<"U+240C">>], [key |-> 13, to |-> <<"U+240D">>],
    [key |-> 14, to |-> <<"U+240E">>], [key |-> 15, to |-> <<"U+240F">>],
    [key |-> 16, to |-> <<"U+2410">>], [key |-> 17, to |-> <<"U+2411">>],
    [key |-> 18, to |-> <<"U+2412">>], [key |-> 19, to |-> <<"U+2413">>],
    [key |-> 20, to |-> <<"U+2414">>], [key |-> 21, to |-> <<"U+2415">>],
    [key |-> 22, to |-> <<"U+2416">>], [key |-> 23, to |-> <<"U+2417">>],
    [key |-> 24, to |-> <<"U+2418">>], [key |-> 25, to |-> <<"U+2419">>],
    [key |-> 26, to |-> <<"U+241A">>], [key |-> 27, to |-> <<"U+241B">>],
    [key |-> 28, to |-> <<"U+241C">>], [key |-> 29, to |-> <<"U+241D">>],
    [key |-> 30, to |-> <<"U+241E">>], [key |-> 31, to |-> <<"U+241F">>],
    [key |-> 9, to |-> <<" ", " ", " ", " ">>], [key |-> 127, to |-> <<"U+2421">>],
    [key |-> 8205, to |-> <<>>], [key |-> 8234, to |-> <<"U+FFFD">>],
    [key |-> 8235, to |-> <<"U+FFFD">>], [key |-> 8236, to |-> <<"U+FFFD">>],
    [key |-> 8237, to |-> <<"U+FFFD">>], [key |-> 8238, to |-> <<"U+FFFD">>],
    [key |-> 8294, to |-> <<"U+FFFD">>], [key |-> 8295, to |-> <<"U+FFFD">>],
    [key |-> 8296, to |-> <<"U+FFFD">>], [key |-> 8297, to |-> <<"U+FFFD">>]>>

\* OUTPUT_REPLACEMENTS: what is printed in place of a character, by key
OUTPUT_REPLACEMENTS ==
  <<[key |-> 0, to |-> <<"U+2400">>], [key |-> 1, to |-> <<"U+2401">>],
    [key |-> 2, to |-> <<"U+2402">>], [key |-> 3, to |-> <<"U+2403">>],
    [key |-> 4, to |-> <<"U+2404">>], [key |-> 5, to |-> <<"U+2405">>],
    [key |-> 6, to |-> <<"U+2406">>], [key |-> 7, to |-> <<"U+2407">>],
    [key |-> 8, to |-> <<"U+2408">>], [key |-> 9, to |-> <<" ", " ", " ", " ">>],
    [key |-> 11, to |-> <<"U+240B">>], [key |-> 12, to |-> <<"U+240C">>],
    [key |-> 13, to |-> <<"U+240D">>], [key |-> 14, to |-> <<"U+240E">>],
    [key |-> 15, to |-> <<"U+240F">>], [key |-> 16, to |-> <<"U+2410">>],
    [key |-> 17, to |-> <<"U+2411">>], [key |-> 18, to |-> <<"U+2412">>],
    [key |-> 19, to |-> <<"U+2413">>], [key |-> 20, to |-> <<"U+2414">>],
    [key |-> 21, to |-> <<"U+2415">>], [key |-> 22, to |-> <<"U+2416">>],
    [key |-> 23, to |-> <<"U+2417">>], [key |-> 24, to |-> <<"U+2418">>],
    [key |-> 25, to |-> <<"U+2419">>], [key |-> 26, to |-> <<"U+241A">>],
    [key |-> 27, to |-> <<"U+241B">>], [key |-> 28, to |-> <<"U+241C">>],
    [key |-> 29, to |-> <<"U+241D">>], [key |-> 30, to |-> <<"U+241E">>],
    [key |-> 31, to |-> <<"U+241F">>], [key |-> 127, to |-> <<"U+2421">>],
    [key |-> 8205, to |-> <<>>], [key |-> 8234, to |-> <<"U+FFFD">>],
    [key |-> 8235, to |-> <<"U+FFFD">>], [key |-> 8236, to |-> <<"U+FFFD">>],
    [key |-> 8237, to |-> <<"U+FFFD">>], [key |-> 8238, to |-> <<"U+FFFD">>],
    [key |-> 8294, to |-> <<"U+FFFD">>], [key |-> 8295, to |-> <<"U+FFFD">>],
    [key |-> 8296, to |-> <<"U+FFFD">>], [key |-> 8297, to |-> <<"U+FFFD">>]>>

\* slice::binary_search_by_key: the table is halved around the middle
\* entry until the key is found or nothing is left
RECURSIVE binary_search_in(_, _, _, _)
binary_search_in(table, key, left, right) ==
  IF left >= right THEN [found |-> FALSE, index |-> left]
  ELSE IF table[left + (right - left) \div 2 + 1].key < key
  THEN binary_search_in(table, key, left + (right - left) \div 2 + 1, right)
  ELSE IF table[left + (right - left) \div 2 + 1].key > key
  THEN binary_search_in(table, key, left, left + (right - left) \div 2)
  ELSE [found |-> TRUE, index |-> left + (right - left) \div 2]

binary_search_by_key(table, key) == binary_search_in(table, key, 0, Len(table))

\* UnicodeWidthChar::width(ch).unwrap_or(1): two columns for the wide
\* character, none for the zero width joiner and the text-flow characters
\* (U+200D..U+2069), one otherwise
unicode_width(ch) ==
  CASE ch = "W" -> 2
    [] code_point(ch) >= 8205 /\ code_point(ch) <= 8297 -> 0
    [] OTHER -> 1

\* the control and text-flow characters char_width lists
WIDTH_ONE ==
  {0, 1, 2, 3, 4, 5, 6, 7, 8, 11, 12, 13, 14, 15, 16, 17,
   18, 19, 20, 21, 22, 23, 24, 25, 26, 27, 28, 29, 30, 31, 127, 8234,
   8235, 8236, 8237, 8238, 8294, 8295, 8296, 8297}

\* a fault: a tab counted as one column
char_width_narrow_tab(ch) ==
  IF code_point(ch) = 9 \/ code_point(ch) \in WIDTH_ONE THEN 1 ELSE unicode_width(ch)

char_width(ch) ==
  IF code_point(ch) = 9 THEN 4
  ELSE IF code_point(ch) \in WIDTH_ONE THEN 1
  ELSE unicode_width(ch)

RECURSIVE str_width(_)
str_width(s) == IF s = <<>> THEN 0 ELSE char_width(Head(s)) + str_width(Tail(s))

\* what normalize_whitespace pushes for a character, given the result of
\* the search
pushed(ch, found) ==
  IF found.found THEN OUTPUT_REPLACEMENTS[found.index + 1].to ELSE <<ch>>

RECURSIVE normalize_whitespace(_)
normalize_whitespace(s) ==
  IF s = <<>> THEN <<>>
  ELSE pushed(Head(s), binary_search_by_key(OUTPUT_REPLACEMENTS, code_point(Head(s))))
         \o normalize_whitespace(Tail(s))


(***************************************************************************)
(* Styled canvas (StyledBuffer): rows of cells, a cell is a character and  *)
(* a semantic style.  Rows and columns are numbered from 0 as in the code. *)
(***************************************************************************)
StyledChar(chr, style) == [ch |-> chr, st |-> style]
SPACE == StyledChar(" ", "NoStyle")

num_lines(buf) == Len(buf)

ensure_lines(buf, line) ==
  IF line >= Len(buf) THEN buf \o Rep(<<>>, line + 1 - Len(buf)) ELSE buf

\* writes a run of characters on one row, growing the canvas as needed;
\* nothing is written, and no row is added, for an empty string
puts(buf, line, col, string, style) ==
  IF string = <<>> THEN buf
  ELSE LET b == ensure_lines(buf, line)
           row == b[line + 1] \o Rep(SPACE, SatSub(col, Len(b[line + 1])))
           cells == [i \in 1..Len(string) |-> StyledChar(string[i], style)]
       IN [b EXCEPT ![line + 1] = Take(row, col) \o cells \o Drop(row, col + Len(string))]

putc(buf, line, col, chr, style) == puts(buf, line, col, <<chr>>, style)

\* if cond { buffer.puts(..) } and if cond { buffer.putc(..) }
puts_if(cond, buf, line, col, string, style) ==
  IF cond THEN puts(buf, line, col, string, style) ELSE buf

putc_if(cond, buf, line, col, chr, style) ==
  IF cond THEN puts(buf, line, col, <<chr>>, style) ELSE buf

\* substitutes the cells [start, end) of a row by the text; a range that is
\* empty or not inside the row is left alone
replace(buf, line, start, end, string) ==
  IF start = end THEN buf
  ELSE IF line >= Len(buf) THEN buf
  ELSE IF start > Len(buf[line + 1]) \/ end > Len(buf[line + 1]) \/ start > end THEN buf
  ELSE [buf EXCEPT ![line + 1] =
          Take(@, start) \o [i \in 1..Len(string) |-> StyledChar(string[i], "LineNumber")]
          \o Drop(@, end)]

set_style(buf, line, col, style, overwrite) ==
  IF line >= Len(buf) THEN buf
  ELSE IF col >= Len(buf[line + 1]) THEN buf
  ELSE IF overwrite \/ buf[line + 1][col + 1].st \in {"NoStyle", "Quotation"}
       THEN [buf EXCEPT ![line + 1][col + 1].st = style]
       ELSE buf

RECURSIVE set_style_range(_, _, _, _, _, _)
set_style_range(buf, line, col_start, col_end, style, overwrite) ==
  IF col_start >= col_end THEN buf
  ELSE set_style_range(set_style(buf, line, col_start, style, overwrite),
                       line, col_start + 1, col_end, style, overwrite)

\* display width of a flattened row
RECURSIVE row_width(_)
row_width(row) == IF row = <<>> THEN 0 ELSE char_width(Head(row).ch) + row_width(Tail(row))

\* display column at which cell number col (from 0) of a row starts
display_col(row, col) == row_width(Take(row, col))

(***************************************************************************)
(* Margin: how much of a source line is elided, and from which side        *)
(***************************************************************************)
\* usize subtraction as the release build computes it
WrapSub(a, b) == IF a >= b THEN a - b ELSE USIZE_WRAPPED

MarginCompute(m, max_line_len) ==
  LET cl0 == IF m.whitespace_left > LONG_WHITESPACE
             THEN m.whitespace_left - (LONG_WHITESPACE - LONG_WHITESPACE_PADDING)
             ELSE 0
      cr0 == Max2(max_line_len, cl0)
  IN IF cr0 - cl0 > m.term_width
     THEN IF WrapSub(m.label_right, m.whitespace_left) <= m.term_width
          THEN [m EXCEPT !.computed_left = m.whitespace_left,
                         !.computed_right = m.whitespace_left + m.term_width]
          ELSE IF WrapSub(m.label_right, m.span_left) <= m.term_width
          THEN LET padding_left == (m.term_width - (m.label_right - m.span_left)) \div 2
                   cl == SatSub(m.span_left, padding_left)
               IN [m EXCEPT !.computed_left = cl, !.computed_right = cl + m.term_width]
          ELSE IF WrapSub(m.span_right, m.span_left) <= m.term_width
          THEN LET padding_left == ((m.term_width - (m.span_right - m.span_left)) \div 5) * 2
                   cl == SatSub(m.span_left, padding_left)
               IN [m EXCEPT !.computed_left = cl, !.computed_right = cl + m.term_width]
          ELSE [m EXCEPT !.computed_left = m.span_left, !.computed_right = m.span_right]
     ELSE [m EXCEPT !.computed_left = cl0, !.computed_right = cr0]

MarginNew(whitespace_left, span_left, span_right, label_right, term_width, max_line_len) ==
  MarginCompute([whitespace_left |-> SatSub(whitespace_left, ELLIPSIS_PASSING),
                 span_left |-> SatSub(span_left, ELLIPSIS_PASSING),
                 span_right |-> span_right + ELLIPSIS_PASSING,
                 computed_left |-> 0,
                 computed_right |-> 0,
                 term_width |-> term_width,
                 label_right |-> label_right + ELLIPSIS_PASSING],
                max_line_len)

was_cut_left(m) == m.computed_left > 0

MarginLeft(m, line_len) == Min2(m.computed_left, line_len)

MarginRight(m, line_len) ==
  IF SatSub(line_len, m.computed_left) <= m.term_width
  THEN line_len
  ELSE Min2(line_len, m.computed_right)

(***************************************************************************)
(* Line numbers                                                            *)
(***************************************************************************)
RECURSIVE num_decimal_digits_from(_, _, _)
num_decimal_digits_from(num, lim, num_digits) ==
  IF num_digits >= MAX_DIGITS THEN MAX_DIGITS
  ELSE IF num < lim THEN num_digits
  ELSE num_decimal_digits_from(num, lim * 10, num_digits + 1)

num_decimal_digits(num) == num_decimal_digits_from(num, 10, 1)

\* a target of pointer width 16: usize and its MAX_DIGITS
USIZE_BITS_16 == 16

MAX_DIGITS_16 == 5

USIZE_MAX_16 == 2 ^ USIZE_BITS_16 - 1

\* usize::wrapping_mul on that target
wrapping_mul(a, b) == (a * b) % (2 ^ USIZE_BITS_16)

\* a fault: the loop runs once more, for num_digits in 1..=MAX_DIGITS
RECURSIVE num_decimal_digits_16_inclusive(_, _, _, _)
num_decimal_digits_16_inclusive(num, lim, num_digits, compared) ==
  IF num_digits > MAX_DIGITS_16
  THEN [num_digits |-> MAX_DIGITS_16, compared |-> compared, lim |-> lim]
  ELSE IF num < lim
  THEN [num_digits |-> num_digits, compared |-> Append(compared, lim), lim |-> lim]
  ELSE num_decimal_digits_16_inclusive(num, wrapping_mul(lim, 10), num_digits + 1,
                                       Append(compared, lim))

\* num_decimal_digits on that target, from the iteration num_digits on:
\* the result, the limits num was compared against and lim at the end
RECURSIVE num_decimal_digits_16_from(_, _, _, _)
num_decimal_digits_16_from(num, lim, num_digits, compared) ==
  IF num_digits >= MAX_DIGITS_16
  THEN [num_digits |-> MAX_DIGITS_16, compared |-> compared, lim |-> lim]
  ELSE IF num < lim
  THEN [num_digits |-> num_digits, compared |-> Append(compared, lim), lim |-> lim]
  ELSE num_decimal_digits_16_from(num, wrapping_mul(lim, 10), num_digits + 1,
                                  Append(compared, lim))

num_decimal_digits_16(num) == num_decimal_digits_16_from(num, 10, 1, <<>>)

Digit(d) == <<"0", "1", "2", "3", "4", "5", "6", "7", "8", "9">>[d + 1]

\* usize::to_string
RECURSIVE to_string(_)
to_string(n) == IF n < 10 THEN <<Digit(n)>> ELSE to_string(n \div 10) \o <<Digit(n % 10)>>

\* a fault: the literal number in both modes
maybe_anonymized_literal(anonymized_line_numbers, line_num, max_line_num_len) ==
  Rep(" ", SatSub(max_line_num_len, Len(to_string(line_num)))) \o to_string(line_num)

\* format!("{:>max_line_num_len$}", ..): right aligned, never truncated
maybe_anonymized(anonymized_line_numbers, line_num, max_line_num_len) ==
  LET s == IF anonymized_line_numbers THEN ANONYMIZED_LINE_NUM ELSE to_string(line_num)
  IN Rep(" ", SatSub(max_line_num_len, Len(s))) \o s

(***************************************************************************)
(* Glyphs of the two themes                                                *)
(***************************************************************************)
col_separator(theme) == IF theme = "Ascii" THEN "|" ELSE "U+2502"

margin_placeholder(theme) == IF theme = "Ascii" THEN <<".", ".", ".">> ELSE <<"U+2026">>

underline(theme, is_primary) ==
  CASE theme = "Ascii" /\ is_primary ->
         [style |-> "UnderlinePrimary", underline |-> "^", label_start |-> "^",
          vertical_text_line |-> "|", multiline_vertical |-> "|",
          multiline_horizontal |-> "_", multiline_whole_line |-> "/",
          multiline_start_down |-> "^", bottom_right |-> "|", top_left |-> " ",
          top_right_flat |-> "^", bottom_left |-> "|", multiline_end_up |-> "^",
          multiline_end_same_line |-> "^", multiline_bottom_right_with_text |-> "|"]
    [] theme = "Ascii" /\ ~is_primary ->
         [style |-> "UnderlineSecondary", underline |-> "-", label_start |-> "-",
          vertical_text_line |-> "|", multiline_vertical |-> "|",
          multiline_horizontal |-> "_", multiline_whole_line |-> "/",
          multiline_start_down |-> "-", bottom_right |-> "|", top_left |-> " ",
          top_right_flat |-> "-", bottom_left |-> "|", multiline_end_up |-> "-",
          multiline_end_same_line |-> "-", multiline_bottom_right_with_text |-> "|"]
    [] theme = "Unicode" /\ is_primary ->
         [style |-> "UnderlinePrimary", underline |-> "U+2501", label_start |-> "U+252F",
          vertical_text_line |-> "U+2502", multiline_vertical |-> "U+2503",
          multiline_horizontal |-> "U+2501", multiline_whole_line |-> "U+250F",
          multiline_start_down |-> "U+257F", bottom_right |-> "U+2519", top_left |-> "U+250F",
          top_right_flat |-> "U+251B", bottom_left |-> "U+2517", multiline_end_up |-> "U+257F",
          multiline_end_same_line |-> "U+251B",
          multiline_bottom_right_with_text |-> "U+2525"]
    [] OTHER ->
         [style |-> "UnderlineSecondary", underline |-> "U+2500", label_start |-> "U+252C",
          vertical_text_line |-> "U+2502", multiline_vertical |-> "U+2502",
          multiline_horizontal |-> "U+2500", multiline_whole_line |-> "U+250C",
          multiline_start_down |-> "U+2502", bottom_right |-> "U+2518", top_left |-> "U+250C",
          top_right_flat |-> "U+2518", bottom_left |-> "U+2514", multiline_end_up |-> "U+2502",
          multiline_end_same_line |-> "U+2518",
          multiline_bottom_right_with_text |-> "U+2524"]

\* the glyph draw_multiline_line writes for a style
multiline_line_chr(theme, style) ==
  IF theme = "Ascii" THEN "|"
  ELSE IF style \in {"UnderlinePrimary", "LabelPrimary"} THEN "U+2503" ELSE "U+2502"

\* a fault: every vertical in the first gutter column
multiline_col_first(offset, depth) == offset

\* gutter column of the vertical of a multi-line span of the given depth
multiline_col(offset, depth) == offset + depth - 1

draw_multiline_line(theme, buf, line, offset, depth, style) ==
  putc(buf, line, multiline_col(offset, depth), multiline_line_chr(theme, style), style)

draw_col_separator_no_space(theme, buf, line, col) ==
  putc(buf, line, col, col_separator(theme), "LineNumber")

draw_col_separator_end(theme, buf, line, col) ==
  IF theme = "Ascii" THEN putc(buf, line, col, "|", "LineNumber")
  ELSE putc(putc(buf, line, col, "U+2570", "LineNumber"), line, col + 1, "U+2574", "LineNumber")

draw_line_separator(theme, buf, line, col) ==
  IF theme = "Ascii" THEN puts(buf, line, 0, <<".", ".", ".">>, "LineNumber")
  ELSE puts(buf, line, col - 2, <<"U+2021">>, "LineNumber")

draw_range(buf, symbol, line, col_from, col_to, style) ==
  puts(buf, line, col_from, Rep(symbol, SatSub(col_to, col_from)), style)

(***************************************************************************)
(* Renderer::draw_line: one source line, trimmed to the margin, with its   *)
(* line number and column separator.  rd is the Renderer configuration.    *)
(* The result carries the canvas, the left trim the underlines use, and    *)
(* whether an unsigned subtraction underflowed.                            *)
(***************************************************************************)
\* .skip_while(|ch| { skipped += char_width(*ch); skipped <= left })
RECURSIVE skip_while_width(_, _, _)
skip_while_width(s, skipped, left) ==
  IF s = <<>> THEN <<>>
  ELSE IF skipped + char_width(Head(s)) <= left
       THEN skip_while_width(Tail(s), skipped + char_width(Head(s)), left)
       ELSE s

\* a fault: the line is never trimmed on the right
take_while_width_all(s, taken, limit) == s

\* .take_while(|ch| { taken += char_width(*ch); taken <= (right - left) })
RECURSIVE take_while_width(_, _, _)
take_while_width(s, taken, limit) ==
  IF s = <<>> THEN <<>>
  ELSE IF taken + char_width(Head(s)) <= limit
       THEN <<Head(s)>> \o take_while_width(Tail(s), taken + char_width(Head(s)), limit)
       ELSE <<>>

\* for ch in chars { width += char_width(ch); count += 1; if width >= padding { break } }
RECURSIVE taken_until(_, _, _, _)
taken_until(s, width, count, padding) ==
  IF s = <<>> THEN <<width, count>>
  ELSE IF width + char_width(Head(s)) >= padding
       THEN <<width + char_width(Head(s)), count + 1>>
       ELSE taken_until(Tail(s), width + char_width(Head(s)), count + 1, padding)

Reverse(s) == [i \in 1..Len(s) |-> s[Len(s) + 1 - i]] \o <<>>

draw_line_code(rd, buffer, source_string, line_index, line_offset, width_offset, code_offset, max_line_num_len, margin, code) ==
  LET line_len == str_width(source_string)
      left0 == MarginLeft(margin, line_len)
      right == MarginRight(margin, line_len)
      placeholder == margin_placeholder(rd.theme)
      padding == str_width(placeholder)
      cut == IF was_cut_left(margin) THEN taken_until(code, 0, 0, padding) ELSE <<0, 0>>
      width_taken == cut[1]
      bytes_taken == cut[2]
      left == IF was_cut_left(margin) /\ width_taken > padding
              THEN WrapSub(left0, width_taken - padding)
              ELSE left0
      b1 == puts_if(was_cut_left(margin), buffer, line_offset, code_offset, placeholder,
                    "LineNumber")
      rest == Drop(code, bytes_taken)
      b2 == puts(b1, line_offset, code_offset + width_taken, rest, "Quotation")
      char_taken == taken_until(Reverse(code), 0, 0, padding)[2]
      b3 == puts_if(line_len > right, b2, line_offset,
                    WrapSub(code_offset + width_taken + Len(rest), char_taken),
                    placeholder, "LineNumber")
      b4 == puts(b3, line_offset, 0,
                 maybe_anonymized(rd.anonymized_line_numbers, line_index, max_line_num_len),
                 "LineNumber")
  IN [buffer |-> IF Evaluated(code) /\ Evaluated(b2) /\ Evaluated(b4)
                 THEN draw_col_separator_no_space(rd.theme, b4, line_offset, width_offset - 2)
                 ELSE buffer,
      left |-> left,
      skipped |-> Len(source_string) - Len(skip_while_width(source_string, 0, left0))
                    + bytes_taken,
      code_col |-> code_offset + width_taken,
      code_chars |-> Len(rest),
      fault |-> \/ right < left0
                \/ was_cut_left(margin) /\ width_taken > padding
                   /\ left0 < width_taken - padding
                \/ line_len > right /\ code_offset + width_taken + Len(rest) < char_taken]

\* the characters of the line that fall inside the margin are drawn
draw_line(rd, buffer, source_string, line_index, line_offset, width_offset, code_offset, max_line_num_len, margin) ==
  draw_line_code(rd, buffer, source_string, line_index, line_offset, width_offset,
                 code_offset, max_line_num_len, margin,
                 take_while_width(
                   skip_while_width(source_string, 0,
                                    MarginLeft(margin, str_width(source_string))),
                   0,
                   WrapSub(MarginRight(margin, str_width(source_string)),
                           MarginLeft(margin, str_width(source_string)))))


(***************************************************************************)
(* Line annotations                                                        *)
(***************************************************************************)
\* fold of a sequence, left to right
FoldLeft(Op(_, _), acc, s) ==
  LET f[i \in 0..Len(s)] ==
        IF i = 0 THEN acc
        ELSE LET before == f[i - 1]
             IN IF Evaluated(before) THEN Op(before, s[i]) ELSE before
  IN IF Evaluated(acc) THEN f[Len(s)] ELSE acc

\* stable sort: each element goes before the first one it is Less than
SortStable(Less(_, _), s) ==
  LET Insert(acc, x) ==
        LET later == {i \in 1..Len(acc) : Less(x, acc[i])}
            k == IF later = {} THEN Len(acc) + 1
                 ELSE CHOOSE i \in later : \A j \in later : i <= j
        IN SubSeq(acc, 1, k - 1) \o <<x>> \o SubSeq(acc, k, Len(acc))
  IN FoldLeft(Insert, <<>>, s)

\* lexicographic order of pairs
PairLess(a1, a2, b1, b2) == a1 < b1 \/ (a1 = b1 /\ a2 < b2)
PairLeq(a1, a2, b1, b2) == a1 < b1 \/ (a1 = b1 /\ a2 <= b2)

is_primary(a) == a.primary
is_line(a) == a.annotation_type = "MultilineLine"
ann_len(a) == AbsDiff(a.end_display, a.start_display)
has_label(a) == a.labelled /\ a.label # <<>>
takes_space(a) == a.annotation_type \in {"MultilineStart", "MultilineEnd"}

num_overlap(a_start, a_end, b_start, b_end, inclusive) ==
  LET extra == IF inclusive THEN 1 ELSE 0
  IN \/ (b_start <= a_start /\ a_start < b_end + extra)
     \/ (a_start <= b_start /\ b_start < a_end + extra)

overlaps(a1, a2, padding) ==
  num_overlap(a1.start_display, a1.end_display + padding,
              a2.start_display, a2.end_display, FALSE)

\* style under which render_source_line reports an opened or closed bracket
label_style(a) == IF is_primary(a) THEN "LabelPrimary" ELSE "LabelSecondary"

(***************************************************************************)
(* Renderer::render_source_line, vertical slots of the labels              *)
(***************************************************************************)
\* first inner loop: st is [p, overlap, stop]
position_scan(annotations, i, st0) ==
  LET annotation == annotations[i]
      Step(st, j) ==
        IF st.stop THEN st
        ELSE LET next == annotations[j]
                 o == overlaps(next, annotation, 0)
                 ov == IF o /\ (j - 1) > 1 THEN st.overlap \cup {i, j} ELSE st.overlap
             IN IF o /\ has_label(annotation) /\ j > i /\ st.p = 0
                THEN IF /\ next.start_display = annotation.start_display
                        /\ next.start_char = annotation.start_char
                        /\ next.end_display = annotation.end_display
                        /\ next.end_char = annotation.end_char
                        /\ ~has_label(next)
                     THEN [st EXCEPT !.overlap = ov]
                     ELSE [p |-> st.p + 1, overlap |-> ov, stop |-> TRUE]
                ELSE [st EXCEPT !.overlap = ov]
  IN FoldLeft(Step, [st0 EXCEPT !.stop = FALSE], [j \in 1..Len(annotations) |-> j])

\* a fault: the label of the next annotation is not counted in its extent
needs_new_line_unpadded(annotation, next, p) ==
  \/ (overlaps(next, annotation, 0) /\ has_label(annotation) /\ has_label(next))
  \/ (takes_space(annotation) /\ has_label(next))
  \/ (has_label(annotation) /\ takes_space(next))
  \/ (takes_space(annotation) /\ takes_space(next))
  \/ (/\ overlaps(next, annotation, 0)
      /\ PairLeq(next.end_display, next.end_char,
                 annotation.end_display, annotation.end_char)
      /\ has_label(next)
      /\ p = 0)

\* the condition under which the second inner loop moves to a new row
needs_new_line(annotation, next, p) ==
  LET l == IF next.labelled THEN Len(next.label) + 2 ELSE 0
  IN \/ (overlaps(next, annotation, l) /\ has_label(annotation) /\ has_label(next))
     \/ (takes_space(annotation) /\ has_label(next))
     \/ (has_label(annotation) /\ takes_space(next))
     \/ (takes_space(annotation) /\ takes_space(next))
     \/ (/\ overlaps(next, annotation, l)
         /\ PairLeq(next.end_display, next.end_char,
                    annotation.end_display, annotation.end_char)
         /\ has_label(next)
         /\ p = 0)

\* second inner loop: p after it
position_bump(annotations, i, p) ==
  IF \E j \in (i + 1)..Len(annotations) : needs_new_line(annotations[i], annotations[j], p)
  THEN p + 1
  ELSE p

\* the outer loop; result [p, overlap, stop, positions, line_len]
assign_positions(annotations) ==
  LET Step(st, i) ==
        LET s1 == position_scan(annotations, i, [p |-> st.p, overlap |-> st.overlap,
                                                  stop |-> FALSE])
            p2 == position_bump(annotations, i, s1.p)
        IN [p |-> p2, overlap |-> s1.overlap, stop |-> FALSE,
            positions |-> Append(st.positions, [pos |-> s1.p, ann |-> annotations[i]]),
            line_len |-> Max2(st.line_len, p2)]
  IN FoldLeft(Step, [p |-> 0, overlap |-> {}, stop |-> FALSE, positions |-> <<>>,
                     line_len |-> 0],
              [i \in 1..Len(annotations) |-> i])

\* a fault: slots are inverted on a line of starts and ends of spans too
invert_positions_any_bracket(positions) ==
  IF positions # <<>> /\ \A i \in 1..Len(positions) : takes_space(positions[i].ann)
  THEN LET max_pos == CHOOSE m \in {positions[i].pos : i \in 1..Len(positions)} :
                        \A i \in 1..Len(positions) : positions[i].pos <= m
       IN [i \in 1..Len(positions) |-> [positions[i] EXCEPT !.pos = max_pos - @]] \o <<>>
  ELSE positions

\* slots are inverted when every placed annotation starts a multi-line span
invert_positions(positions) ==
  IF positions # <<>> /\ \A i \in 1..Len(positions) : positions[i].ann.annotation_type = "MultilineStart"
  THEN LET max_pos == CHOOSE m \in {positions[i].pos : i \in 1..Len(positions)} :
                        \A i \in 1..Len(positions) : positions[i].pos <= m
       IN [i \in 1..Len(positions) |-> [positions[i] EXCEPT !.pos = max_pos - @]] \o <<>>
  ELSE positions

inverted_line_len(positions, line_len) ==
  IF positions # <<>> /\ \A i \in 1..Len(positions) : positions[i].ann.annotation_type = "MultilineStart"
  THEN SatSub(line_len, 1)
  ELSE line_len


(***************************************************************************)
(* Renderer::render_source_line, drawing                                   *)
(***************************************************************************)
\* putc on every row of [row_from, row_to) at one column
RECURSIVE put_rows(_, _, _, _, _, _)
put_rows(buf, row_from, row_to, col, chr, style) ==
  IF row_from >= row_to THEN buf
  ELSE put_rows(putc(buf, row_from, col, chr, style), row_from + 1, row_to, col, chr, style)

\* a fault: a placeholder of an interior line ends the fast path too
short_start_starts_only(source_string, annotations) ==
  \A i \in 1..Len(annotations) :
    /\ annotations[i].annotation_type = "MultilineStart"
    /\ \A k \in 1..Min2(annotations[i].start_display, Len(source_string)) :
         is_whitespace(source_string[k])

\* every annotation is the start of a multi-line span with only whitespace
\* before it, or a vertical line placeholder
short_start(source_string, annotations) ==
  \A i \in 1..Len(annotations) :
    \/ annotations[i].annotation_type = "MultilineLine"
    \/ /\ annotations[i].annotation_type = "MultilineStart"
       /\ \A k \in 1..Min2(annotations[i].start_display, Len(source_string)) :
            is_whitespace(source_string[k])

draw_short_start(rd, buffer, annotations, line_offset, width_offset) ==
  LET Step(buf, ann) ==
        IF ann.annotation_type = "MultilineStart"
        THEN putc(buf, line_offset, multiline_col(width_offset, ann.depth),
                  underline(rd.theme, is_primary(ann)).multiline_whole_line,
                  underline(rd.theme, is_primary(ann)).style)
        ELSE buf
  IN FoldLeft(Step, buffer, annotations)

short_start_depths(rd, annotations) ==
  LET Step(acc, ann) ==
        IF ann.annotation_type = "MultilineStart"
        THEN Append(acc, <<ann.depth, underline(rd.theme, is_primary(ann)).style>>)
        ELSE acc
  IN FoldLeft(Step, <<>>, annotations)

draw_col_separators(rd, buffer, line_offset, line_len, width_offset, close_window) ==
  LET Step(buf, pos) == draw_col_separator_no_space(rd.theme, buf, line_offset + pos + 1,
                                                    width_offset - 2)
      b1 == FoldLeft(Step, buffer, [k \in 1..(line_len + 1) |-> k - 1])
  IN IF close_window
     THEN draw_col_separator_end(rd.theme, b1, line_offset + line_len + 1, width_offset - 2)
     ELSE b1

\* canvas column of a display column of the source line
code_col(code_offset, display, left) == SatSub(code_offset + display, left)

draw_horizontal(buf, ann, pos, ul, line_offset, width_offset, col_start, col_end) ==
  IF takes_space(ann)
  THEN draw_range(buf, ul.multiline_horizontal, line_offset + pos + 1,
                  width_offset + ann.depth, col_start, ul.style)
  ELSE IF ann.highlight_source
  THEN set_style_range(buf, line_offset, col_start, col_end, ul.style, is_primary(ann))
  ELSE buf

draw_horizontals(rd, buffer, positions, line_offset, width_offset, code_offset, left) ==
  LET Step(buf, pa) ==
        draw_horizontal(buf, pa.ann, pa.pos, underline(rd.theme, is_primary(pa.ann)),
                        line_offset, width_offset,
                        code_col(code_offset, pa.ann.start_display, left),
                        code_col(code_offset, pa.ann.end_display, left))
  IN FoldLeft(Step, buffer, positions)

\* the bracket of the start or the end of a multi-line span in the gutter
draw_gutter_bracket(buf, ann, pos, ul, line_offset, line_len, gutter) ==
  CASE ann.annotation_type = "MultilineStart" ->
         put_rows(putc(buf, line_offset + pos, gutter, ul.top_left, ul.style),
                  line_offset + pos + 1, line_offset + line_len + 2, gutter,
                  ul.multiline_vertical, ul.style)
    [] ann.annotation_type = "MultilineEnd" ->
         putc(put_rows(buf, line_offset, line_offset + pos, gutter,
                       ul.multiline_vertical, ul.style),
              line_offset + pos, gutter, ul.bottom_left, ul.style)
    [] OTHER -> buf

\* the vertical line from one annotation down to its label, then its bracket
draw_vertical(buf, ann, pos, ul, line_offset, line_len, gutter, col) ==
  LET below == pos > 1 /\ (has_label(ann) \/ takes_space(ann))
      b1 == IF below
            THEN put_rows(buf, line_offset + 1, line_offset + pos + 1, col,
                          IF ann.annotation_type = "MultilineLine"
                          THEN ul.multiline_vertical ELSE ul.vertical_text_line,
                          ul.style)
            ELSE buf
      b2 == putc_if(below /\ ann.annotation_type = "MultilineStart",
                    b1, line_offset + pos, col, ul.bottom_right, ul.style)
      b3 == putc_if(below /\ ann.annotation_type = "MultilineEnd" /\ has_label(ann),
                    b2, line_offset + pos, col, ul.multiline_bottom_right_with_text,
                    ul.style)
  IN draw_gutter_bracket(b3, ann, pos, ul, line_offset, line_len, gutter)

draw_verticals(rd, buffer, positions, line_offset, line_len, width_offset, code_offset, left) ==
  LET Step(buf, pa) ==
        draw_vertical(buf, pa.ann, pa.pos + 1, underline(rd.theme, is_primary(pa.ann)),
                      line_offset, line_len, multiline_col(width_offset, pa.ann.depth),
                      code_col(code_offset, pa.ann.start_display, left))
  IN FoldLeft(Step, buffer, positions)

draw_labels(buffer, positions, line_offset, code_offset, left) ==
  LET Step(buf, pa) ==
        LET ann == pa.ann
            row == IF pa.pos = 0 THEN pa.pos + 1 ELSE pa.pos + 2
            col == IF pa.pos = 0
                   THEN IF ann.end_display = 0
                        THEN SatSub(ann.end_display + 2, left)
                        ELSE SatSub(ann.end_display + 1, left)
                   ELSE SatSub(ann.start_display, left)
        IN IF ann.labelled
           THEN puts(buf, line_offset + row, code_offset + col, ann.label, label_style(ann))
           ELSE buf
  IN FoldLeft(Step, buffer, positions)

\* a fault: the underlines are drawn in the order of the slots
sort_by_len_unsorted(positions) == positions

\* sort_by_key(|(_, ann)| (Reverse(ann.len()), ann.is_primary()))
sort_by_len(positions) ==
  LET Less(x, y) == \/ ann_len(x.ann) > ann_len(y.ann)
                    \/ (ann_len(x.ann) = ann_len(y.ann)
                        /\ ~is_primary(x.ann) /\ is_primary(y.ann))
  IN SortStable(Less, positions)

\* the glyph under the first column of an annotation that is an end of a
\* multi-line span, or whose label is on a lower row
draw_underline_start(buf, ann, pos, ul, row, col) ==
  IF pos = 0 /\ takes_space(ann)
  THEN putc(buf, row, col,
            IF ann.annotation_type = "MultilineStart"
            THEN ul.top_right_flat ELSE ul.multiline_end_same_line, ul.style)
  ELSE IF pos # 0 /\ takes_space(ann)
  THEN putc(buf, row, col,
            IF ann.annotation_type = "MultilineStart"
            THEN ul.multiline_start_down ELSE ul.multiline_end_up, ul.style)
  ELSE IF pos # 0 /\ has_label(ann)
  THEN putc(buf, row, col, ul.label_start, ul.style)
  ELSE buf

\* the underline of one annotation: the columns that saturate at 0 are
\* written one by one, the rest is a run
draw_underline(buf, ann, pos, ul, row, code_offset, left) ==
  LET low == {p \in ann.start_display..(ann.end_display - 1) : code_offset + p < left}
      first == IF low = {} THEN ann.start_display ELSE MaxOf(low, 0) + 1
      b0 == putc_if(low # {}, buf, row, code_col(code_offset, ann.start_display, left),
                    ul.underline, ul.style)
      b1 == puts(b0, row, code_col(code_offset, first, left),
                 Rep(ul.underline, SatSub(ann.end_display, first)), ul.style)
  IN draw_underline_start(b1, ann, pos, ul, row,
                          code_col(code_offset, ann.start_display, left))

draw_underlines(rd, buffer, positions, line_offset, code_offset, left) ==
  LET Step(buf, pa) ==
        draw_underline(buf, pa.ann, pa.pos, underline(rd.theme, is_primary(pa.ann)),
                       line_offset + 1, code_offset, left)
  IN FoldLeft(Step, buffer, positions)

\* the wide-span rule: a lone single-line span wider than twice the
\* available width and than 10 columns
is_long_span(ann, margin) ==
  /\ ann.annotation_type = "Singleline"
  /\ ann.end_display - ann.start_display > margin.term_width * 2
  /\ ann.end_display - ann.start_display > 10

long_span_pad(margin) == Max2(margin.term_width \div 3, 5)

\* first column of the range the wide-span rule replaces
trim_start(ann, pad, code_offset, left) == ann.start_display + pad

\* column after the range the wide-span rule replaces
trim_end(ann, pad, code_offset, left) == ann.end_display - pad

trim_long_spans(rd, buffer, positions, overlap, line_offset, code_offset, left, margin) ==
  LET Step(buf, i) ==
        LET ann == positions[i].ann
            pad == long_span_pad(margin)
        IN IF i \in overlap THEN buf
           ELSE IF ~is_long_span(ann, margin) THEN buf
           ELSE replace(replace(buf, line_offset,
                                trim_start(ann, pad, code_offset, left),
                                trim_end(ann, pad, code_offset, left),
                                margin_placeholder(rd.theme)),
                        line_offset + 1,
                        trim_start(ann, pad, code_offset, left),
                        trim_end(ann, pad, code_offset, left),
                        margin_placeholder(rd.theme))
  IN FoldLeft(Step, buffer, [i \in 1..Len(positions) |-> i])

\* unsigned underflow in the wide-span rule: end - start, end - pad
trim_fault(positions, overlap, margin) ==
  \E i \in 1..Len(positions) :
    /\ i \notin overlap
    /\ positions[i].ann.annotation_type = "Singleline"
    /\ \/ positions[i].ann.end_display < positions[i].ann.start_display
       \/ (is_long_span(positions[i].ann, margin)
           /\ positions[i].ann.end_display < long_span_pad(margin))

\* a fault: the line reports the spans it opens only
reported_depths_opened(positions) ==
  LET Step(acc, pa) ==
        IF pa.ann.annotation_type = "MultilineStart"
        THEN Append(acc, <<pa.ann.depth, label_style(pa.ann)>>)
        ELSE acc
  IN FoldLeft(Step, <<>>, positions)

\* the brackets the line opens or closes
reported_depths(positions) ==
  LET Step(acc, pa) ==
        IF takes_space(pa.ann) THEN Append(acc, <<pa.ann.depth, label_style(pa.ann)>>)
        ELSE acc
  IN FoldLeft(Step, <<>>, positions)

\* the part of render_source_line after the source line is drawn (dl) and
\* the annotations have their vertical slots (ap)
render_annotations(rd, line_info, buffer, width_offset, code_offset, margin, close_window, dl, ap) ==
  LET source_string == normalize_whitespace(line_info.line)
      line_offset == num_lines(buffer)
      left == dl.left
      line_len0 == IF ap.line_len # 0 THEN ap.line_len + 1 ELSE 0
      positions == invert_positions(ap.positions)
      line_len == inverted_line_len(ap.positions, line_len0)
      b1 == draw_col_separators(rd, dl.buffer, line_offset, line_len, width_offset,
                                close_window)
      b2 == draw_horizontals(rd, b1, positions, line_offset, width_offset, code_offset, left)
      b3 == draw_verticals(rd, b2, positions, line_offset, line_len, width_offset,
                           code_offset, left)
      b4 == draw_labels(b3, positions, line_offset, code_offset, left)
      by_len == sort_by_len(positions)
      b5 == draw_underlines(rd, b4, by_len, line_offset, code_offset, left)
      b6 == trim_long_spans(rd, b5, by_len, ap.overlap, line_offset, code_offset, left,
                            margin)
      none == [buffer |-> buffer, depths |-> <<>>, fault |-> FALSE, left |-> 0,
               line_offset |-> line_offset, line_len |-> 0, positions |-> <<>>,
               overlap |-> {}, short |-> FALSE, drawn |-> FALSE,
               written |-> [skipped |-> dl.skipped, code_col |-> dl.code_col,
                            code_chars |-> dl.code_chars]]
  IN IF line_info.line_index = 0 THEN none
     ELSE IF short_start(source_string, line_info.annotations)
     THEN [none EXCEPT !.buffer = draw_short_start(rd, dl.buffer, line_info.annotations,
                                                   line_offset, width_offset),
                       !.depths = short_start_depths(rd, line_info.annotations),
                       !.fault = dl.fault, !.left = left, !.short = TRUE, !.drawn = TRUE]
     ELSE IF \A i \in 1..Len(line_info.annotations) : is_line(line_info.annotations[i])
     THEN [none EXCEPT !.buffer = dl.buffer, !.fault = dl.fault, !.left = left,
                       !.drawn = TRUE]
     ELSE IF /\ Evaluated(dl) /\ Evaluated(positions) /\ Evaluated(b1) /\ Evaluated(b2)
             /\ Evaluated(b3) /\ Evaluated(b4) /\ Evaluated(by_len) /\ Evaluated(b5)
     THEN [buffer |-> b6, depths |-> reported_depths(by_len),
           fault |-> dl.fault \/ trim_fault(by_len, ap.overlap, margin),
           left |-> left, line_offset |-> line_offset, line_len |-> line_len,
           positions |-> by_len, overlap |-> ap.overlap, short |-> FALSE, drawn |-> TRUE,
           written |-> none.written]
     ELSE none

render_source_line(rd, line_info, buffer, width_offset, code_offset, max_line_num_len, margin, close_window) ==
  render_annotations(
    rd, line_info, buffer, width_offset, code_offset, margin, close_window,
    draw_line(rd, buffer, normalize_whitespace(line_info.line), line_info.line_index,
              num_lines(buffer), width_offset, code_offset, max_line_num_len, margin),
    assign_positions(SortStable(LAMBDA x, y :
                                  PairLess(y.start_display, y.start_char,
                                           x.start_display, x.start_char),
                                line_info.annotations)))


(***************************************************************************)
(* SourceMap: locations and the per-line projection of the markers.        *)
(* A marker is [sl, sc, el, ec, primary, labelled, label, depth, mids,     *)
(* highlight_source]: lines sl..el of the excerpt (from 1), character      *)
(* columns sc and ec (from 0, ec exclusive), the depth of a multi-line     *)
(* span and the interior lines that carry a MultilineLine placeholder.     *)
(***************************************************************************)
\* str::len of a character (len_utf8)
char_bytes(ch) == IF ch = "W" THEN 4 ELSE 1

RECURSIVE str_len(_)
str_len(s) == IF s = <<>> THEN 0 ELSE char_bytes(Head(s)) + str_len(Tail(s))

\* display column of character column col of a line
loc_display(line, col) == str_width(Take(line, col))

is_multiline(m) == m.sl # m.el

singleline_annotation(sn, m) ==
  LET sd == loc_display(sn.lines[m.sl], m.sc)
      ed == loc_display(sn.lines[m.el], m.ec)
  IN [start_display |-> sd, start_char |-> m.sc,
      end_display |-> IF sd = ed THEN ed + 1 ELSE ed, end_char |-> m.ec,
      primary |-> m.primary, labelled |-> m.labelled, label |-> m.label,
      annotation_type |-> "Singleline", depth |-> 0,
      highlight_source |-> m.highlight_source]

as_start(sn, m) ==
  LET sd == loc_display(sn.lines[m.sl], m.sc)
  IN [start_display |-> sd, start_char |-> m.sc,
      end_display |-> sd + 1, end_char |-> m.sc + 1,
      primary |-> m.primary, labelled |-> FALSE, label |-> <<>>,
      annotation_type |-> "MultilineStart", depth |-> m.depth,
      highlight_source |-> m.highlight_source]

as_end(sn, m) ==
  LET ed == loc_display(sn.lines[m.el], m.ec)
  IN [start_display |-> SatSub(ed, 1), start_char |-> SatSub(m.ec, 1),
      end_display |-> ed, end_char |-> m.ec,
      primary |-> m.primary, labelled |-> m.labelled, label |-> m.label,
      annotation_type |-> "MultilineEnd", depth |-> m.depth,
      highlight_source |-> m.highlight_source]

as_line(sn, m) ==
  [start_display |-> 0, start_char |-> 0, end_display |-> 0, end_char |-> 0,
   primary |-> m.primary, labelled |-> FALSE, label |-> <<>>,
   annotation_type |-> "MultilineLine", depth |-> m.depth,
   highlight_source |-> m.highlight_source]

\* the annotations of line l: single-line markers, then the pieces of the
\* multi-line markers
line_annotations(sn, l) ==
  LET Single(acc, m) ==
        IF ~is_multiline(m) /\ m.sl = l THEN Append(acc, singleline_annotation(sn, m))
        ELSE acc
      Multi(acc, m) ==
        IF ~is_multiline(m) THEN acc
        ELSE IF m.sl = l THEN Append(acc, as_start(sn, m))
        ELSE IF m.el = l THEN Append(acc, as_end(sn, m))
        ELSE IF l \in m.mids THEN Append(acc, as_line(sn, m))
        ELSE acc
  IN FoldLeft(Multi, FoldLeft(Single, <<>>, sn.markers), sn.markers)

\* SourceMap::annotated_lines: [line_index, line, annotations] per line,
\* without the unannotated lines when the excerpt is folded
annotated_lines(sn) ==
  LET Step(acc, l) ==
        LET anns == line_annotations(sn, l)
        IN IF sn.fold /\ anns = <<>> THEN acc
           ELSE Append(acc, [line_index |-> sn.line_start + l - 1, line |-> sn.lines[l],
                             annotations |-> anns])
  IN FoldLeft(Step, <<>>, [l \in 1..Len(sn.lines) |-> l])

\* the largest depth of a multi-line marker
max_depth(sn) ==
  LET ds == {sn.markers[i].depth : i \in {k \in 1..Len(sn.markers) : is_multiline(sn.markers[k])}}
  IN IF ds = {} THEN 0 ELSE CHOOSE d \in ds : \A e \in ds : e <= d

\* SourceMap::get_line
get_line(sn, idx) ==
  IF idx >= sn.line_start /\ idx - sn.line_start + 1 <= Len(sn.lines)
  THEN sn.lines[idx - sn.line_start + 1]
  ELSE <<>>

(***************************************************************************)
(* Renderer::render, the part that sizes the gutter                        *)
(***************************************************************************)
\* max_line_number for one group holding one excerpt
max_line_number(sn) ==
  LET ends == {sn.markers[i].el : i \in 1..Len(sn.markers)}
      last == IF sn.fold /\ ends # {}
              THEN CHOOSE e \in ends : \A f \in ends : f <= e
              ELSE Len(sn.lines)
  IN sn.line_start + SatSub(last, 1)

max_line_num_len(rd, sn) ==
  IF rd.anonymized_line_numbers THEN Len(ANONYMIZED_LINE_NUM)
  ELSE num_decimal_digits(max_line_number(sn))

(***************************************************************************)
(* Renderer::render_snippet_annotations, before the loop                   *)
(***************************************************************************)
width_offset(rd, sn) == 3 + max_line_num_len(rd, sn)

code_offset(rd, sn) ==
  IF max_depth(sn) = 0 THEN width_offset(rd, sn)
  ELSE width_offset(rd, sn) + max_depth(sn) + 1

\* a fault: the available code width by a plain subtraction
column_width_wrapping(rd, sn) == WrapSub(rd.term_width, code_offset(rd, sn))

\* the available code width
column_width(rd, sn) == SatSub(rd.term_width, code_offset(rd, sn))

leading_whitespace(line) ==
  LET n == MinOf({k \in 1..Len(line) : ~is_whitespace(line[k])}, Len(line) + 1) - 1
  IN FoldLeft(LAMBDA acc, c : acc + (IF c = "TAB" THEN 4 ELSE 1), 0, Take(line, n))

\* the margin of the annotated lines al for the available code width cw
margin_for(al, cw) ==
  LET anns == UNION {{al[i].annotations[j] : j \in 1..Len(al[i].annotations)} :
                       i \in 1..Len(al)}
      whitespace_margin ==
        MinOf({leading_whitespace(al[i].line) :
                 i \in {k \in 1..Len(al) : \E c \in 1..Len(al[k].line) :
                                              ~is_whitespace(al[k].line[c])}}, 0)
      span_left_margin ==
        MinOf({a.start_display : a \in anns} \cup {a.end_display : a \in anns}, 0)
      span_right_margin ==
        MaxOf({a.start_display : a \in anns} \cup {a.end_display : a \in anns}, 0)
      label_right_margin ==
        MaxOf({a.end_display + (IF a.labelled THEN Len(a.label) + 1 ELSE 0) : a \in anns}, 0)
      max_line_len == MaxOf({str_len(al[i].line) : i \in 1..Len(al)}, 0)
  IN MarginNew(whitespace_margin, span_left_margin, span_right_margin, label_right_margin,
               cw, max_line_len)

\* the margin of the annotated lines al of the excerpt
margin_of_lines(rd, sn, al) == margin_for(al, column_width(rd, sn))

snippet_margin(rd, sn) == margin_of_lines(rd, sn, annotated_lines(sn))

\* the header of an excerpt without a path that is the primary one
snippet_header(rd, sn, buffer) ==
  IF rd.theme = "Unicode"
  THEN puts(buffer, num_lines(buffer), max_line_num_len(rd, sn),
            <<" ", "U+256D", "U+25B8", " ">>, "LineNumber")
  ELSE draw_col_separator_no_space(rd.theme, buffer, num_lines(buffer),
                                   max_line_num_len(rd, sn) + 1)


(***************************************************************************)
(* Renderer::render_snippet_annotations, one iteration of the loop over    *)
(* the annotated lines.  run is [buffer, multilines]; multilines is the    *)
(* list of <<depth, style>> of the open multi-line spans.                  *)
(***************************************************************************)
\* Vec::swap_remove, index from 1
swap_remove(v, index) ==
  IF index = Len(v) THEN SubSeq(v, 1, Len(v) - 1)
  ELSE SubSeq([v EXCEPT ![index] = v[Len(v)]], 1, Len(v) - 1)

\* a fault: a reported depth is always collected, never closed
toggle_depth_collect(st, d) ==
  [st EXCEPT !.to_add = [x \in (DOMAIN @) \cup {d[1]} |-> IF x = d[1] THEN d[2] ELSE @[x]]]

\* a depth the line reports closes the open span of that depth, if there is
\* one, and is otherwise collected in to_add (a map from depth to style)
toggle_depth(st, d) ==
  LET hits == {i \in 1..Len(st.multilines) : st.multilines[i][1] = d[1]}
  IN IF hits # {}
     THEN [st EXCEPT !.multilines = swap_remove(@, MinOf(hits, 0))]
     ELSE [st EXCEPT !.to_add = [x \in (DOMAIN @) \cup {d[1]} |->
                                   IF x = d[1] THEN d[2] ELSE @[x]]]

update_multilines(multilines, depths) ==
  FoldLeft(toggle_depth, [multilines |-> multilines, to_add |-> <<>>], depths)

\* a fault: the verticals of the open spans on the first row only
draw_open_multilines_first_row(rd, buffer, multilines, row_from, row_to, offset) ==
  LET Rows(buf, m) ==
        put_rows(buf, row_from, Min2(row_to, row_from + 1), multiline_col(offset, m[1]),
                 multiline_line_chr(rd.theme, m[2]), m[2])
  IN FoldLeft(Rows, buffer, multilines)

\* the verticals of the open spans on the rows [row_from, row_to)
draw_open_multilines(rd, buffer, multilines, row_from, row_to, offset) ==
  LET Rows(buf, m) ==
        put_rows(buf, row_from, row_to, multiline_col(offset, m[1]),
                 multiline_line_chr(rd.theme, m[2]), m[2])
  IN FoldLeft(Rows, buffer, multilines)

\* a fault: the spans the line itself opens are forgotten
draw_started_multilines_none(rd, buffer, annotations, row, offset) == buffer

\* the verticals of the spans the line itself opens, on one row
draw_started_multilines(rd, buffer, annotations, row, offset) ==
  LET Step(buf, ann) ==
        IF ann.annotation_type = "MultilineStart"
        THEN draw_multiline_line(rd.theme, buf, row, offset, ann.depth,
                                 IF is_primary(ann) THEN "UnderlinePrimary"
                                 ELSE "UnderlineSecondary")
        ELSE buf
  IN FoldLeft(Step, buffer, annotations)

\* what lies between annotated line idx and the next one
line_idx_delta(al, idx) == al[idx + 1].line_index - al[idx].line_index

bridge_kind(al, idx) ==
  IF idx >= Len(al) THEN "none"
  ELSE IF line_idx_delta(al, idx) > 2 THEN "separator"
  ELSE IF line_idx_delta(al, idx) = 2 THEN "line"
  ELSE "none"

\* what follows the annotated line: the separator or the unannotated line
\* before the next annotated line, with the verticals of the open spans
draw_bridge(rd, sn, buffer, al, idx, kind, multilines, row, wo, dl) ==
  LET b2 == CASE kind = "separator" -> draw_line_separator(rd.theme, buffer, row, wo)
              [] kind = "line" -> dl.buffer
              [] OTHER -> buffer
  IN IF kind = "none" THEN buffer
     ELSE IF Evaluated(b2)
     THEN draw_started_multilines(
            rd, draw_open_multilines(rd, b2, multilines, row, row + 1, wo),
            al[idx].annotations, row, wo)
     ELSE buffer

\* the part of the iteration after the annotated line is drawn (r), the open
\* spans are updated (upd) and their verticals are drawn (b1)
render_bridge(rd, sn, run, idx, al, wo, co, mll, margin, r, upd, b1) ==
  LET last_buffer_line_num == num_lines(b1)
      kind == bridge_kind(al, idx)
      dl == draw_line(rd, b1, normalize_whitespace(get_line(sn, al[idx].line_index + 1)),
                      al[idx + 1].line_index - 1, last_buffer_line_num, wo, co, mll, margin)
  IN IF Evaluated(al) /\ Evaluated(margin) /\ Evaluated(r) /\ Evaluated(upd)
        /\ Evaluated(b1)
     THEN [buffer |-> draw_bridge(rd, sn, b1, al, idx, kind, upd.multilines,
                                  last_buffer_line_num, wo, dl),
           multilines |-> upd.multilines, to_add |-> upd.to_add,
           fault |-> r.fault \/ (kind = "line" /\ dl.fault)
                     \/ (idx < Len(al) /\ al[idx + 1].line_index < al[idx].line_index),
           source_line |-> r, bridge |-> kind, bridge_row |-> last_buffer_line_num]
     ELSE [buffer |-> run.buffer, multilines |-> run.multilines, to_add |-> <<>>,
           fault |-> FALSE, source_line |-> r, bridge |-> kind,
           bridge_row |-> last_buffer_line_num]

\* the part of the iteration after the annotated line is drawn (r)
render_open(rd, sn, run, idx, al, wo, co, mll, margin, r) ==
  render_bridge(rd, sn, run, idx, al, wo, co, mll, margin, r,
                update_multilines(run.multilines, r.depths),
                draw_open_multilines(rd, r.buffer,
                                     update_multilines(run.multilines, r.depths).multilines,
                                     num_lines(run.buffer), num_lines(r.buffer), wo))

\* the iteration for annotated line idx of al
render_line(rd, sn, run, idx, al, wo, co, mll, margin) ==
  render_open(rd, sn, run, idx, al, wo, co, mll, margin,
              render_source_line(rd, al[idx], run.buffer, wo, co, mll, margin,
                                 ~rd.is_cont /\ idx = Len(al)))

render_annotated_line(rd, sn, run, idx) ==
  render_line(rd, sn, run, idx, annotated_lines(sn), width_offset(rd, sn),
              code_offset(rd, sn), max_line_num_len(rd, sn), snippet_margin(rd, sn))

\* the orders in which a hash map may yield its entries
Orders(to_add) ==
  {o \in [1..Cardinality(DOMAIN to_add) -> DOMAIN to_add] :
     \A i, j \in DOMAIN o : i # j => o[i] # o[j]}

\* multilines.extend(to_add)
extend(multilines, to_add, order) ==
  multilines \o [i \in 1..Cardinality(DOMAIN to_add) |-> <<order[i], to_add[order[i]]>>]


(***************************************************************************)
(* Styled canvas, continued: writing at the end and at the start of a row, *)
(* and flattening.  A text is a sequence of characters; "LF" is the line   *)
(* break.  The renderer is the plain one: no style emits an escape.        *)
(***************************************************************************)
\* StyledBuffer::append
append(buf, line, string, style) ==
  IF line >= Len(buf) THEN puts(buf, line, 0, string, style)
  ELSE puts(buf, line, Len(buf[line + 1]), string, style)

\* StyledBuffer::prepend: the row is shifted right to make room
prepend(buf, line, string, style) ==
  puts([ensure_lines(buf, line) EXCEPT ![line + 1] =
          IF @ = <<>> THEN @ ELSE Rep(SPACE, Len(string)) \o @],
       line, 0, string, style)

RECURSIVE prepend_times(_, _, _, _, _)
prepend_times(buf, line, string, style, n) ==
  IF n = 0 THEN buf
  ELSE prepend_times(prepend(buf, line, string, style), line, string, style, n - 1)

\* the characters of a row
row_text(row) == [i \in 1..Len(row) |-> row[i].ch] \o <<>>

\* StyledBuffer::render: the rows joined by line breaks
RECURSIVE flatten_from(_, _)
flatten_from(buf, i) ==
  IF i > Len(buf) THEN <<>>
  ELSE row_text(buf[i]) \o (IF i # Len(buf) THEN <<"LF">> ELSE <<>>) \o flatten_from(buf, i + 1)

flatten(buf) == flatten_from(buf, 1)

(***************************************************************************)
(* Options.  An optional text is [some, v].                                *)
(***************************************************************************)
None == [some |-> FALSE, v |-> <<>>]
Some(x) == [some |-> TRUE, v |-> x]

\* str::split('\n')
RECURSIVE split_lines(_, _)
split_lines(s, acc) ==
  IF s = <<>> THEN <<acc>>
  ELSE IF Head(s) = "LF" THEN <<acc>> \o split_lines(Tail(s), <<>>)
  ELSE split_lines(Tail(s), Append(acc, Head(s)))

\* str::trim().is_empty()
is_blank(s) == \A i \in 1..Len(s) : s[i] \in {" ", "TAB", "LF"}

\* [T]::join
RECURSIVE join(_, _)
join(strings, sep) ==
  IF strings = <<>> THEN <<>>
  ELSE IF Len(strings) = 1 THEN strings[1]
  ELSE strings[1] \o sep \o join(Tail(strings), sep)

(***************************************************************************)
(* Renderer::render_origin and Renderer::render_title                      *)
(***************************************************************************)
file_start(theme) ==
  IF theme = "Ascii" THEN <<"-", "-", ">", " ">> ELSE <<" ", "U+256D", "U+25B8", " ">>

secondary_file_start(theme) ==
  IF theme = "Ascii" THEN <<":", ":", ":", " ">> ELSE <<" ", "U+2E2C", " ", " ">>

draw_note_separator(theme, buf, line, col, is_cont) ==
  puts(buf, line, col,
       IF theme = "Ascii" THEN <<"=", " ">>
       ELSE IF is_cont THEN <<"U+251C", " ">> ELSE <<"U+2570", " ">>,
       "LineNumber")

\* format!("{}:{}:{}", origin.path, line, col)
origin_str(origin) ==
  IF origin.line.some /\ origin.char_column.some
  THEN origin.path \o <<":">> \o to_string(origin.line.v) \o <<":">>
         \o to_string(origin.char_column.v)
  ELSE IF origin.line.some THEN origin.path \o <<":">> \o to_string(origin.line.v)
  ELSE origin.path

OriginPath(path) == [path |-> path, line |-> None, char_column |-> None, primary |-> FALSE]

render_origin_start(rd, buf, origin, line) ==
  IF origin.primary /\ ~rd.short_message
  THEN prepend(buf, line, file_start(rd.theme), "LineNumber")
  ELSE IF ~rd.short_message
  THEN prepend(buf, line, secondary_file_start(rd.theme), "LineNumber")
  ELSE buf

render_origin(rd, buffer, num_len, origin, buffer_msg_line_offset) ==
  prepend_times(append(render_origin_start(rd, buffer, origin, buffer_msg_line_offset),
                       buffer_msg_line_offset, origin_str(origin), "LineAndColumn"),
                buffer_msg_line_offset, <<" ">>, "NoStyle",
                IF rd.short_message THEN 0 ELSE num_len)

\* the escapes of an OSC-8 hyperlink
OSC8_OPEN(url) == <<"ESC]8;;">> \o url \o <<"ESC\\">>
OSC8_CLOSE == <<"ESC]8;;", "ESC\\">>

\* the label of a title: the level, then the code between brackets
title_label(title) ==
  IF ~title.level.shown THEN <<>>
  ELSE title.level.name
       \o (IF title.id.some /\ title.id.v.id.some
           THEN <<"[">>
                \o (IF title.id.v.url.some THEN OSC8_OPEN(title.id.v.url.v) ELSE <<>>)
                \o title.id.v.id.v
                \o (IF title.id.v.url.some THEN OSC8_CLOSE ELSE <<>>)
                \o <<"]">>
           ELSE <<>>)

\* a fault: the escapes of the hyperlink are counted in the width
label_width_with_escapes(title) ==
  IF ~title.level.shown THEN 0
  ELSE str_len(title.level.name)
       + (IF title.id.some /\ title.id.v.id.some
          THEN 2 + str_len(title.id.v.id.v)
               + (IF title.id.v.url.some
                  THEN Len(OSC8_OPEN(title.id.v.url.v)) + Len(OSC8_CLOSE) ELSE 0)
          ELSE 0)
       + 2

\* label_width: byte lengths of the level, of the code and of "[", "]", ": "
label_width(title) ==
  IF ~title.level.shown THEN 0
  ELSE str_len(title.level.name)
       + (IF title.id.some /\ title.id.v.id.some THEN 2 + str_len(title.id.v.id.v) ELSE 0)
       + 2

title_element_style(rd, title_style) ==
  CASE title_style = "MainHeader" -> IF rd.short_message THEN "NoStyle" ELSE "MainHeaderMsg"
    [] title_style = "Header" -> "HeaderMsg"
    [] OTHER -> "NoStyle"

title_label_style(title_style) ==
  IF title_style = "Secondary" THEN "MainHeaderMsg" ELSE "Level"

\* the rows of the title text: each row after the first is indented
RECURSIVE append_title_rows(_, _, _, _, _, _, _, _, _)
append_title_rows(rd, buf, rows, i, line, padding, style, joined, col) ==
  IF i > Len(rows) THEN buf
  ELSE append_title_rows(
         rd,
         append(IF i # 1 /\ joined
                THEN draw_col_separator_no_space(
                       rd.theme, append(buf, line + i - 1, padding, "NoStyle"),
                       line + i - 1, col)
                ELSE IF i # 1 THEN append(buf, line + i - 1, padding, "NoStyle")
                ELSE buf,
                line + i - 1, rows[i], style),
         rows, i + 1, line, padding, style, joined, col)

render_title_label(rd, buf, title, title_style, line) ==
  IF title.level.shown
  THEN append(append(buf, line, title_label(title), title_label_style(title_style)),
              line, <<":", " ">>, title_element_style(rd, title_style))
  ELSE buf

render_title(rd, buffer, title, num_len, title_style, is_cont, buffer_msg_line_offset) ==
  append_title_rows(
    rd,
    render_title_label(
      rd,
      IF title_style = "Secondary"
      THEN draw_note_separator(rd.theme,
                               prepend_times(buffer, buffer_msg_line_offset, <<" ">>,
                                             "NoStyle", num_len),
                               buffer_msg_line_offset, num_len + 1, is_cont)
      ELSE buffer,
      title, title_style, buffer_msg_line_offset),
    split_lines(IF title.pre_styled THEN title.text ELSE normalize_whitespace(title.text),
                <<>>),
    1, buffer_msg_line_offset,
    Rep(" ", IF title_style = "Secondary"
             THEN num_len + 3 + label_width(title)
             ELSE label_width(title)),
    IF title.pre_styled THEN "NoStyle" ELSE title_element_style(rd, title_style),
    title_style = "Secondary" /\ is_cont /\ rd.theme = "Unicode",
    num_len + 1)

(***************************************************************************)
(* Renderer::render_short_message.  A report is a sequence of groups; a    *)
(* group is [title, elements]; an element is a record whose field element  *)
(* names its kind.  A Cause carries the fields of an excerpt and its path. *)
(***************************************************************************)
is_cause(e) == e.element = "Cause"

\* the annotated line the location of an excerpt is taken from
primary_line(al) ==
  LET with_primary == {i \in 1..Len(al) :
                         \E j \in 1..Len(al[i].annotations) : is_primary(al[i].annotations[j])}
      annotated == {i \in 1..Len(al) : al[i].annotations # <<>>}
  IN IF with_primary # {} THEN Some(al[MinOf(with_primary, 0)])
     ELSE IF annotated # {} THEN Some(al[MinOf(annotated, 0)])
     ELSE None

\* min_by_key(|a| (Reverse(a.is_primary()), a.start.char)): the first least
first_annotation(annotations) ==
  LET Before(a, b) == \/ is_primary(a) /\ ~is_primary(b)
                      \/ is_primary(a) = is_primary(b) /\ a.start_char < b.start_char
      least == {i \in 1..Len(annotations) :
                  \A j \in 1..Len(annotations) : ~Before(annotations[j], annotations[i])}
  IN annotations[MinOf(least, 0)]

\* the location of the primary excerpt at the annotated line pl
located(origin, pl) ==
  IF ~pl.some THEN origin
  ELSE [origin EXCEPT !.line = Some(pl.v.line_index),
                      !.char_column = IF pl.v.annotations = <<>> THEN None
                                      ELSE Some(first_annotation(pl.v.annotations).start_char + 1)]

primary_origin(path, al) == located([OriginPath(path) EXCEPT !.primary = TRUE], primary_line(al))

\* a fault: the label of the first primary annotation only
short_labels_first(cause) ==
  IF SelectSeq(cause.markers, LAMBDA m : m.labelled /\ m.primary /\ ~is_blank(m.label)) = <<>>
  THEN <<>>
  ELSE SelectSeq(cause.markers,
                 LAMBDA m : m.labelled /\ m.primary /\ ~is_blank(m.label))[1].label

\* the labels of the primary annotations that are not blank, joined
short_labels(cause) ==
  join([i \in 1..Len(SelectSeq(cause.markers,
                               LAMBDA m : m.labelled /\ m.primary /\ ~is_blank(m.label))) |->
          SelectSeq(cause.markers,
                    LAMBDA m : m.labelled /\ m.primary /\ ~is_blank(m.label))[i].label] \o <<>>,
       <<",", " ">>)

short_origin(rd, buf, cause) ==
  IF cause.path.some
  THEN append(render_origin(rd, buf, 0, primary_origin(cause.path.v, annotated_lines(cause)),
                            0),
              0, <<":", " ">>, "LineAndColumn")
  ELSE buf

short_message_of(rd, title, causes) ==
  append(render_title(rd,
                      IF causes = <<>> THEN <<>> ELSE short_origin(rd, <<>>, causes[1]),
                      title, 0, "MainHeader", FALSE, 0),
         0,
         IF causes = <<>> \/ short_labels(causes[1]) = <<>> THEN <<>>
         ELSE <<":", " ">> \o short_labels(causes[1]),
         "NoStyle")

\* a fault: an empty string where the group or its title is missing
render_short_message_lenient(rd, gs) ==
  IF gs = <<>> \/ ~gs[1].title.some
  THEN [panicked |-> FALSE, buffer |-> <<>>, out_string |-> <<>>]
  ELSE [panicked |-> FALSE,
        buffer |-> short_message_of(rd, gs[1].title.v, SelectSeq(gs[1].elements, is_cause)),
        out_string |-> flatten(short_message_of(rd, gs[1].title.v,
                                                SelectSeq(gs[1].elements, is_cause)))]

\* the result: panicked, or the canvas and the string
render_short_message(rd, groups) ==
  IF groups = <<>> THEN [panicked |-> TRUE, buffer |-> <<>>, out_string |-> <<>>]
  ELSE IF ~groups[1].title.some THEN [panicked |-> TRUE, buffer |-> <<>>, out_string |-> <<>>]
  ELSE [panicked |-> FALSE,
        buffer |-> short_message_of(rd, groups[1].title.v,
                                    SelectSeq(groups[1].elements, is_cause)),
        out_string |-> flatten(short_message_of(rd, groups[1].title.v,
                                                SelectSeq(groups[1].elements, is_cause)))]

(***************************************************************************)
(* Bounds of the model                                                     *)
(***************************************************************************)
\* lines of an excerpt with multi-line spans
MaxLines == 4
\* multi-line spans of an excerpt
MaxSpans == 2
\* characters before the annotated text of a long line
MaxLead == 2
\* columns of the widest single-line span
MaxWide == 12

(***************************************************************************)
(* The inputs: an excerpt (Snippet with its annotations) and a Renderer    *)
(***************************************************************************)
Label(n) == Rep("l", n)

Marker(sl, sc, el, ec, primary, label_len, depth, mids) ==
  [sl |-> sl, sc |-> sc, el |-> el, ec |-> ec, primary |-> primary,
   labelled |-> label_len >= 0, label |-> Label(Max2(label_len, 0)),
   depth |-> depth, mids |-> mids, highlight_source |-> FALSE]

RendererOf(term_width, theme, anon) ==
  [term_width |-> term_width, theme |-> theme, anonymized_line_numbers |-> anon,
   is_cont |-> FALSE]

SnippetOf(lines, line_start, fold, markers) ==
  [lines |-> lines, line_start |-> line_start, fold |-> fold, markers |-> markers]

\* a line of code indented by two columns
CodeLine == <<" ", " ", "a", "a", "a", "a">>

lines_overlap(m1, m2) == num_overlap(m1.sl, m1.el, m2.sl, m2.el, TRUE)

\* depths are positive, contiguous from 1, and differ for spans whose line
\* ranges meet
depths_valid(ms) ==
  /\ {ms[i].depth : i \in 1..Len(ms)} = 1..MaxOf({ms[i].depth : i \in 1..Len(ms)}, 0)
  /\ \A i, j \in 1..Len(ms) :
       i # j /\ lines_overlap(ms[i], ms[j]) => ms[i].depth # ms[j].depth

MultilineMarkers ==
  {Marker(sl, sc, el, 5, FALSE, -1, depth, {}) :
     sl \in 1..MaxLines, el \in 1..MaxLines, sc \in {0, 3}, depth \in 1..MaxSpans}

\* the order in which the source map lists the spans: by first line, the
\* longer span first
span_before(m1, m2) ==
  \/ m1.sl < m2.sl
  \/ m1.sl = m2.sl /\ m1.el > m2.el
  \/ m1.sl = m2.sl /\ m1.el = m2.el /\ m1.sc < m2.sc

\* every span has the least depth that no earlier span meeting it has
least_depths(ms) ==
  \A i \in 1..Len(ms) :
    \A d \in 1..(ms[i].depth - 1) :
      \E j \in 1..(i - 1) : lines_overlap(ms[j], ms[i]) /\ ms[j].depth = d

\* one or two spans with any valid depths, more spans with the least depths
SpanSets ==
  {ms \in UNION {[1..n -> {m \in MultilineMarkers : m.sl < m.el}] : n \in 1..MaxSpans} :
     /\ depths_valid(ms)
     /\ \A i \in 1..(Len(ms) - 1) : span_before(ms[i], ms[i + 1])
     /\ Len(ms) > 2 => least_depths(ms)}

\* the first span is the primary one; its interior lines carry placeholders
\* or not; its end is labelled or not
WithDetails(ms, placeholders, label_len) ==
  [i \in 1..Len(ms) |->
     IF i = 1
     THEN [ms[i] EXCEPT !.mids = IF placeholders THEN (ms[i].sl + 1)..(ms[i].el - 1) ELSE {},
                        !.primary = TRUE,
                        !.labelled = label_len >= 0,
                        !.label = Label(Max2(label_len, 0))]
     ELSE ms[i]] \o <<>>

\* the ways an excerpt with multi-line spans is decorated and rendered
BracketVariants ==
  {[fold |-> TRUE, ph |-> FALSE, ll |-> -1, single |-> 0, theme |-> "Unicode",
    anon |-> FALSE, line_start |-> 1],
   [fold |-> TRUE, ph |-> TRUE, ll |-> 2, single |-> 0, theme |-> "Ascii",
    anon |-> TRUE, line_start |-> 98],
   [fold |-> FALSE, ph |-> FALSE, ll |-> 2, single |-> 2, theme |-> "Unicode",
    anon |-> FALSE, line_start |-> 98],
   [fold |-> TRUE, ph |-> FALSE, ll |-> -1, single |-> 2, theme |-> "Ascii",
    anon |-> FALSE, line_start |-> 9]}

BracketInput(ms, v) ==
  [sn |-> SnippetOf(Rep(CodeLine, MaxLines), v.line_start, v.fold,
                    WithDetails(ms, v.ph, v.ll)
                      \o (IF v.single = 0 THEN <<>>
                          ELSE <<Marker(v.single, 3, v.single, 5, FALSE, 2, 0, {})>>)),
   rd |-> RendererOf(DEFAULT_TERM_WIDTH, v.theme, v.anon)]

\* one or two spans in every variant, more spans in the plain one
BracketInputs ==
  {BracketInput(ms, v) : ms \in {m \in SpanSets : Len(m) <= 2}, v \in BracketVariants}
    \cup {BracketInput(ms, v) : ms \in {m \in SpanSets : Len(m) > 2},
                                v \in {w \in BracketVariants : w.line_start = 1}}

\* how the line numbers of a one-line excerpt are shown: anonymized or not,
\* and the number of the line
Numberings == {<<FALSE, 1>>, <<TRUE, 1>>, <<FALSE, 10>>, <<FALSE, 100>>}

Themes == {"Ascii", "Unicode"}

\* a long line: up to MaxLead characters, three characters that are one or
\* two columns wide, three more, the annotated text, and a tail
LongLine(k, c, span) ==
  Rep("a", k) \o c \o <<"x", "y", "z">> \o span \o <<"d", "e", "f", "g">>

LongLineInputs ==
  {[sn |-> SnippetOf(<<LongLine(k, c, span)>>, nb[2], TRUE,
                     <<Marker(1, k + 6, 1, k + 6 + Len(span), TRUE, ll, 0, {})>>),
    rd |-> RendererOf(tw, theme, nb[1])] :
     k \in 0..MaxLead, c \in [1..3 -> {"a", "W"}],
     span \in {<<"b", "c">>, <<"b", "W", "c">>}, ll \in {-1, 12},
     tw \in {0, 9, 20, DEFAULT_TERM_WIDTH}, theme \in Themes,
     nb \in {<<FALSE, 1>>, <<TRUE, 1>>}}

\* a line holding one wide span
WideSpanInputs ==
  {[sn |-> SnippetOf(<<Rep("a", pre) \o Rep("b", w) \o Rep("a", post)>>, nb[2], TRUE,
                     <<Marker(1, pre, 1, pre + w, TRUE, ll, 0, {})>>),
    rd |-> RendererOf(tw, theme, nb[1])] :
     pre \in {0, 8}, w \in {MaxWide - 1, MaxWide}, post \in {0, 2}, ll \in {-1, 3},
     tw \in {0, 8, 9, 12, DEFAULT_TERM_WIDTH}, theme \in Themes, nb \in Numberings}

\* a deeply indented line, annotated in its text or in its indentation
IndentedInputs ==
  {[sn |-> SnippetOf(<<Rep(" ", LONG_WHITESPACE + 8) \o <<"a", "a", "b", "c", "a">>>>,
                     nb[2], TRUE,
                     <<Marker(1, sc, 1, sc + 2, TRUE, 2, 0, {})>>),
    rd |-> RendererOf(tw, theme, nb[1])] :
     sc \in {2, LONG_WHITESPACE + 10}, tw \in {16, DEFAULT_TERM_WIDTH}, theme \in Themes,
     nb \in Numberings}

\* a line with two single-line annotations
TwoSpanInputs ==
  {[sn |-> SnippetOf(<<<<"a", "b", "c", "d", "e", "f", "g", "h">>>>, nb[2], TRUE,
                     <<Marker(1, 2, 1, 6, TRUE, 2, 0, {}),
                       Marker(1, sc, 1, sc + 2, FALSE, ll, 0, {})>>),
    rd |-> RendererOf(DEFAULT_TERM_WIDTH, theme, nb[1])] :
     sc \in {0, 2, 3, 4, 6}, ll \in {-1, 2}, theme \in Themes, nb \in Numberings}

LineInputs == LongLineInputs \cup WideSpanInputs \cup IndentedInputs \cup TwoSpanInputs

Inputs == BracketInputs \cup LineInputs

(***************************************************************************)
(* The state machine.  buffer and multilines are the canvas and the open   *)
(* multi-line spans of the call of render; again is a second call of       *)
(* render on the same input, flipped a call with line number anonymization *)
(* switched.  fault records an unsigned underflow.  layout records, per    *)
(* annotated line, where the line was drawn.  groups is the report of a    *)
(* call of render, g the index of the group the call is at, out_string the *)
(* text the call has produced.                                             *)
(***************************************************************************)
VARIABLES sn, rd, pc, annotated_line_idx, buffer, multilines, again, flipped, fault, layout,
          groups, g, out_string
(***************************************************************************)
(* Lines with control characters                                           *)
(***************************************************************************)
\* a letter, a tab, control characters, the zero width joiner, a text-flow
\* character and a wide character
ControlChars == {"a", "TAB", "U+0000", "U+001B", "U+200D", "U+202E", "W"}

\* prefixes of such characters before the annotated text "xy"
MaxControls == 3

ControlInputs ==
  {[sn |-> SnippetOf(<<[i \in 1..MaxControls |-> p[i]] \o <<"x", "y">>>>, 1, TRUE,
                     <<Marker(1, MaxControls, 1, MaxControls + 2, TRUE, 1, 0, {})>>),
    rd |-> RendererOf(DEFAULT_TERM_WIDTH, "Ascii", FALSE)] :
     p \in [1..MaxControls -> ControlChars]}

(***************************************************************************)
(* Lines with several single-line annotations                              *)
(***************************************************************************)
\* a line of sixteen letters
LabelLine == <<"a", "b", "c", "d", "e", "f", "g", "h", "i", "j", "k", "m", "n", "o", "p", "q">>

\* a single-line annotation of columns sc..sc + len of the first line with
\* no label (None), an empty label or a text
TextMarker(sc, len, primary, text) ==
  [Marker(1, sc, 1, sc + len, primary, IF text = None THEN -1 ELSE 0, 0, {})
     EXCEPT !.label = IF text = None THEN <<>> ELSE text.v]

\* three annotations: the first of four columns, a short one, and one that
\* is empty, of four columns or of eight; one of the two outer ones primary
ThreeLabelInputs ==
  {[sn |-> SnippetOf(<<LabelLine>>, 1, TRUE,
                     <<TextMarker(2, 4, p, l1),
                       TextMarker(s2, n2, FALSE, l2),
                       TextMarker(s3, n3, ~p, l3)>>),
    rd |-> RendererOf(DEFAULT_TERM_WIDTH, IF s2 = 0 THEN "Unicode" ELSE "Ascii", FALSE)] :
     p \in BOOLEAN, l1 \in {None, Some(<<"x", "x">>)},
     s2 \in {0, 2, 4, 7}, n2 \in {1, 2},
     l2 \in {None, Some(<<>>), Some(<<"y", "y">>)},
     s3 \in {0, 2, 3, 6}, n3 \in {0, 4, 8},
     l3 \in {None, Some(<<"z", "z">>), Some(<<"z", "z", "z", "z">>)}}

\* a span of twelve columns in a narrow terminal, with one or two shorter
\* spans inside it or after it
WideOverlapInputs ==
  {[sn |-> SnippetOf(<<LabelLine>>, 1, TRUE,
                     SubSeq(<<TextMarker(0, MaxWide, TRUE, l1),
                              TextMarker(s2, 2, FALSE, None),
                              TextMarker(s3, 1, FALSE, None)>>, 1, n)),
    rd |-> RendererOf(tw, theme, FALSE)] :
     l1 \in {None, Some(<<"x", "x">>)}, s2 \in {3, 13}, s3 \in {5, 15}, n \in 2..3,
     tw \in {8, 9}, theme \in Themes}

LabelInputs == ThreeLabelInputs \cup WideOverlapInputs

vars == <<sn, rd, pc, annotated_line_idx, buffer, multilines, again, flipped, fault, layout,
          groups, g, out_string>>

\* the same Renderer with line number anonymization switched
flip(r) == [r EXCEPT !.anonymized_line_numbers = ~@]

\* the order in which a second run's hash map yields its entries
ascending(to_add) ==
  SortStable(LAMBDA a, b : a < b,
             CHOOSE o \in Orders(to_add) : TRUE)

InitOf(inputs) ==
  /\ \E inp \in inputs : sn = inp.sn /\ rd = inp.rd
  /\ pc = "start"
  /\ annotated_line_idx = 0
  /\ buffer = <<>>
  /\ multilines = <<>>
  /\ again = [buffer |-> <<>>, multilines |-> <<>>]
  /\ flipped = [buffer |-> <<>>, multilines |-> <<>>]
  /\ fault = FALSE
  /\ layout = <<>>
  /\ groups = <<>>
  /\ g = 0
  /\ out_string = <<>>

Init == InitOf(Inputs)
InitBrackets == InitOf(BracketInputs)
InitLines == InitOf(LineInputs)

\* render_snippet_annotations up to its loop
Begin(twice, modes) ==
  /\ pc = "start"
  /\ buffer' = snippet_header(rd, sn, buffer)
  /\ again' = IF twice THEN [again EXCEPT !.buffer = snippet_header(rd, sn, again.buffer)]
              ELSE again
  /\ flipped' = IF modes
                THEN [flipped EXCEPT !.buffer = snippet_header(flip(rd), sn, flipped.buffer)]
                ELSE flipped
  /\ annotated_line_idx' = 1
  /\ pc' = IF annotated_lines(sn) = <<>> THEN "done" ELSE "lines"
  /\ UNCHANGED <<sn, rd, multilines, fault, layout, groups, g, out_string>>

\* a further call of render advances by one iteration
extended(step) ==
  [buffer |-> step.buffer,
   multilines |-> extend(step.multilines, step.to_add, ascending(step.to_add))]

rerun(r, run, idx) == extended(render_annotated_line(r, sn, run, idx))

\* one iteration of the loop over the annotated lines
Render(twice, modes) ==
  /\ pc = "lines"
  /\ \E step \in {render_annotated_line(rd, sn, [buffer |-> buffer, multilines |-> multilines],
                                         annotated_line_idx)} :
        /\ \E order \in Orders(step.to_add) :
             /\ multilines' = extend(step.multilines, step.to_add, order)
             /\ layout' = Append(layout, [row |-> step.source_line.line_offset,
                                          left |-> step.source_line.left,
                                          line_len |-> step.source_line.line_len,
                                          positions |-> step.source_line.positions,
                                          overlap |-> step.source_line.overlap,
                                          short |-> step.source_line.short,
                                          written |-> step.source_line.written,
                                          bridge |-> step.bridge,
                                          bridge_row |-> step.bridge_row,
                                          rows |-> num_lines(step.buffer),
                                          open_before |-> multilines,
                                          depths |-> step.source_line.depths,
                                          open |-> multilines'])
        /\ buffer' = step.buffer
        /\ fault' = (fault \/ step.fault)
  /\ again' = IF twice THEN rerun(rd, again, annotated_line_idx) ELSE again
  /\ flipped' = IF modes THEN rerun(flip(rd), flipped, annotated_line_idx) ELSE flipped
  /\ annotated_line_idx' = annotated_line_idx + 1
  /\ pc' = IF annotated_line_idx = Len(annotated_lines(sn)) THEN "done" ELSE "lines"
  /\ UNCHANGED <<sn, rd, groups, g, out_string>>

BeginSnippet == Begin(FALSE, FALSE)
RenderLine == Render(FALSE, FALSE)

\* render is called twice
BeginTwice == Begin(TRUE, FALSE)
RenderLineTwice == Render(TRUE, FALSE)

\* render is called in both line number modes
BeginModes == Begin(FALSE, TRUE)
RenderLineModes == Render(FALSE, TRUE)

Next == BeginSnippet \/ RenderLine
NextTwice == BeginTwice \/ RenderLineTwice
NextModes == BeginModes \/ RenderLineModes

Spec == Init /\ [][Next]_vars
SpecBrackets == InitBrackets /\ [][Next]_vars
SpecLines == InitLines /\ [][Next]_vars
SpecTwice == InitBrackets /\ [][NextTwice]_vars
SpecModes == Init /\ [][NextModes]_vars

\* excerpts whose line holds control characters
InitControl == InitOf(ControlInputs)

SpecControl == InitControl /\ [][Next]_vars

\* excerpts of one line with several single-line annotations
InitLabels == InitOf(LabelInputs)

SpecLabels == InitLabels /\ [][Next]_vars

(***************************************************************************)
(* Suggestions.  A patch is [line, sc, ec, replacement]: the characters    *)
(* sc..ec of one line of the excerpt (line is an index into its lines) and *)
(* the text put in their place.  A patch lies within one line; a           *)
(* replacement may hold line breaks.                                       *)
(***************************************************************************)
WHITESPACE == {" ", "TAB", "LF"}

\* str::trim_start, str::trim_end, str::trim
RECURSIVE str_trim_start(_)
str_trim_start(s) ==
  IF s # <<>> /\ Head(s) \in WHITESPACE THEN str_trim_start(Tail(s)) ELSE s

RECURSIVE str_trim_end(_)
str_trim_end(s) ==
  IF s # <<>> /\ s[Len(s)] \in WHITESPACE THEN str_trim_end(SubSeq(s, 1, Len(s) - 1)) ELSE s

str_trim(s) == str_trim_end(str_trim_start(s))

ends_with(s, t) == Len(t) <= Len(s) /\ SubSeq(s, Len(s) - Len(t) + 1, Len(s)) = t

\* str::lines: the lines of a text, without a last empty one
str_lines(s) ==
  IF s = <<>> THEN <<>>
  ELSE IF s[Len(s)] = "LF" THEN split_lines(SubSeq(s, 1, Len(s) - 1), <<>>)
  ELSE split_lines(s, <<>>)

\* the number of leading characters two texts share
RECURSIVE common_prefix(_, _)
common_prefix(a, b) ==
  IF a # <<>> /\ b # <<>> /\ Head(a) = Head(b) THEN 1 + common_prefix(Tail(a), Tail(b)) ELSE 0

\* as_substr: the suggestion is the original with text inserted after the
\* shared prefix
as_substr_at(original, suggestion, n) ==
  IF ends_with(Drop(suggestion, n), Drop(original, n))
  THEN [some |-> TRUE, prefix |-> n,
        substr |-> SubSeq(suggestion, n + 1, Len(suggestion) - (Len(original) - n)),
        suffix |-> Len(original) - n]
  ELSE [some |-> FALSE, prefix |-> 0, substr |-> <<>>, suffix |-> 0]

as_substr(original, suggestion) ==
  as_substr_at(original, suggestion, common_prefix(original, suggestion))

\* the text a patch replaces
patch_snippet(src, p) == SubSeq(src.lines[p.line], p.sc + 1, p.ec)

\* Patch::trim_trivial_replacements: what the patch shares with the text it
\* replaces is taken out of the patch
trimmed_by(p, sub) ==
  IF sub.some
  THEN [p EXCEPT !.sc = p.sc + sub.prefix, !.ec = p.ec - sub.suffix, !.replacement = sub.substr]
  ELSE p

trim_trivial_replacements(src, p) ==
  IF p.replacement = <<>> THEN p
  ELSE trimmed_by(p, as_substr(patch_snippet(src, p), p.replacement))

replaces_meaningful_content(src, p) == ~is_blank(patch_snippet(src, p))

is_addition(src, p) == p.replacement # <<>> /\ ~replaces_meaningful_content(src, p)

is_deletion(src, p) == is_blank(p.replacement) /\ replaces_meaningful_content(src, p)

is_replacement(src, p) == p.replacement # <<>> /\ replaces_meaningful_content(src, p)

is_destructive_replacement(src, p) ==
  /\ is_replacement(src, p)
  /\ ~as_substr(str_trim(patch_snippet(src, p)), str_trim(p.replacement)).some

\* is_different: the replacement is not the text that is already there
is_different(src, p) == str_trim(patch_snippet(src, p)) # str_trim(p.replacement)

\* the patches of a suggestion, ordered by where they start and trimmed
trimmed_patches(src) ==
  [i \in 1..Len(src.markers) |->
     trim_trivial_replacements(
       src,
       SortStable(LAMBDA a, b : a.line < b.line \/ (a.line = b.line /\ a.sc < b.sc),
                  src.markers)[i])]
    \o <<>>

\* the lines between two lines of the excerpt, each with its line break
between_lines(src, lo, hi) ==
  FoldLeft(LAMBDA acc, k : IF lo < k /\ k < hi THEN acc \o src.lines[k] \o <<"LF">> ELSE acc,
           <<>>, [k \in 1..Len(src.lines) |-> k])

\* the text with the patches from the i-th on applied after column prev_hi of
\* the line prev_line: a patch in a later line is preceded by the rest of
\* the line, the lines between and the start of its own line
RECURSIVE splice_from(_, _, _, _, _, _)
splice_from(src, parts, i, prev_line, prev_hi, buf) ==
  IF i > Len(parts) THEN buf
  ELSE IF parts[i].line # prev_line
  THEN splice_from(src, parts, i, parts[i].line, 0,
                   buf \o SubSeq(src.lines[prev_line], prev_hi + 1, Len(src.lines[prev_line]))
                     \o <<"LF">> \o between_lines(src, prev_line, parts[i].line))
  ELSE splice_from(src, parts, i + 1, prev_line, parts[i].ec,
                   buf \o SubSeq(src.lines[prev_line], prev_hi + 1, parts[i].sc)
                     \o parts[i].replacement)

RECURSIVE pop_newlines(_)
pop_newlines(s) ==
  IF s # <<>> /\ s[Len(s)] = "LF" THEN pop_newlines(SubSeq(s, 1, Len(s) - 1)) ELSE s

\* the resulting text: the rest of the line follows unless the text ends
\* with a line break; line breaks at the end are removed
spliced_text(line, parts, buf) ==
  pop_newlines(IF ends_with(buf, <<"LF">>) THEN buf
               ELSE buf \o SubSeq(line, parts[Len(parts)].ec + 1, Len(line)))

\* the width of the first line of a replacement, a tab counted as 4
highlight_len(text) ==
  FoldLeft(LAMBDA acc, c : acc + (IF c = "TAB" THEN 4 ELSE 1), 0, split_lines(text, <<>>)[1])

\* the highlights of the lines of the resulting text: the column ranges of
\* the new text, moved by what the patches before them in the line added or
\* removed; the lines between two patched lines have none
RECURSIVE highlights_from(_, _, _, _, _, _, _)
highlights_from(src, parts, i, prev_line, acc, line_highlight, done) ==
  IF i > Len(parts) THEN Append(done, line_highlight)
  ELSE IF parts[i].line # prev_line
  THEN highlights_from(src, parts, i, parts[i].line, 0, <<>>,
                       Append(done, line_highlight)
                         \o [k \in 1..(parts[i].line - prev_line - 1) |-> <<>>])
  ELSE IF Len(split_lines(parts[i].replacement, <<>>)) > 1
  THEN highlights_from(
         src, parts, i + 1, prev_line, 0,
         <<[start |-> 0,
            end |-> highlight_len(split_lines(parts[i].replacement, <<>>)[
                      Len(split_lines(parts[i].replacement, <<>>))])]>>,
         done
           \o <<IF is_different(src, parts[i])
                THEN Append(line_highlight,
                            [start |-> parts[i].sc + acc,
                             end |-> parts[i].sc + acc + highlight_len(parts[i].replacement)])
                ELSE line_highlight>>
           \o [k \in 1..(Len(split_lines(parts[i].replacement, <<>>)) - 2) |->
                 <<[start |-> 0,
                    end |-> highlight_len(split_lines(parts[i].replacement, <<>>)[k + 1])]>>])
  ELSE highlights_from(
         src, parts, i + 1, prev_line,
         acc + highlight_len(parts[i].replacement) - (parts[i].ec - parts[i].sc),
         IF is_different(src, parts[i])
         THEN Append(line_highlight,
                     [start |-> parts[i].sc + acc,
                      end |-> parts[i].sc + acc + highlight_len(parts[i].replacement)])
         ELSE line_highlight,
         done)

\* SourceMap::splice_lines: the replacement blocks of a suggestion, each
\* [complete, parts, highlights]; none when nothing is new
splice_block(src, parts, highlights) ==
  IF \A k \in 1..Len(highlights) : highlights[k] = <<>> THEN <<>>
  ELSE <<[complete |-> spliced_text(src.lines[parts[Len(parts)].line], parts,
                                    splice_from(src, parts, 1, parts[1].line, 0, <<>>)),
          parts |-> parts, highlights |-> highlights]>>

splice_parts(src, parts) ==
  splice_block(src, parts, highlights_from(src, parts, 1, parts[1].line, 0, <<>>, <<>>))

splice_lines(src) ==
  IF src.markers = <<>> THEN <<>> ELSE splice_parts(src, trimmed_patches(src))

(***************************************************************************)
(* Renderer::emit_suggestion_default                                       *)
(***************************************************************************)
\* a fault: Underline also for a result of several lines
show_code_change_any_lines(src, parts, complete) ==
  IF (\E k \in 1..Len(parts) :
        is_deletion(src, parts[k]) \/ is_destructive_replacement(src, parts[k]))
     /\ ~(Len(str_lines(complete)) > 1)
  THEN "Diff"
  ELSE IF Len(parts) = 1 /\ ends_with(parts[1].replacement, <<"LF">>)
          /\ str_trim(parts[1].replacement) = str_trim(complete)
  THEN "Add"
  ELSE IF Len(parts) # 1 \/ str_trim(parts[1].replacement) # str_trim(complete)
  THEN "Underline"
  ELSE "None"

\* show_code_change: the display mode of a replacement block
show_code_change(src, parts, complete) ==
  IF (\E k \in 1..Len(parts) :
        is_deletion(src, parts[k]) \/ is_destructive_replacement(src, parts[k]))
     /\ ~(Len(str_lines(complete)) > 1)
  THEN "Diff"
  ELSE IF Len(parts) = 1 /\ ends_with(parts[1].replacement, <<"LF">>)
          /\ str_trim(parts[1].replacement) = str_trim(complete)
  THEN "Add"
  ELSE IF (Len(parts) # 1 \/ str_trim(parts[1].replacement) # str_trim(complete))
          /\ ~(Len(str_lines(complete)) > 1)
  THEN "Underline"
  ELSE "None"

(***************************************************************************)
(* Renderer::render in full mode: the groups of a report and the elements  *)
(* of a group.  An element is a Cause, a Message (the fields of a title),  *)
(* an Origin or a Padding.                                                 *)
(***************************************************************************)
\* max_line_number over the groups of a report
\* max_line_number, a Suggestion: the line its last patch ends in when it
\* is folded, else its last line
suggestion_max_line_number(src) ==
  src.line_start
    + SatSub(IF src.fold /\ src.markers # <<>>
             THEN MaxOf({src.markers[k].line : k \in 1..Len(src.markers)}, 0)
             ELSE Len(src.lines), 1)

report_max_line_number(gs) ==
  MaxOf({MaxOf({IF is_cause(gs[i].elements[j]) THEN max_line_number(gs[i].elements[j])
                ELSE IF gs[i].elements[j].element = "Suggestion"
                THEN suggestion_max_line_number(gs[i].elements[j])
                ELSE 0 : j \in 1..Len(gs[i].elements)}, 1) : i \in 1..Len(gs)}, 1)

report_line_num_len(r, gs) ==
  IF r.anonymized_line_numbers THEN Len(ANONYMIZED_LINE_NUM)
  ELSE num_decimal_digits(report_max_line_number(gs))

\* the path an element offers as the primary path
element_path(e) == IF is_cause(e) THEN e.path ELSE Some(e.path)

has_primary(e) ==
  \/ is_cause(e) /\ \E i \in 1..Len(e.markers) : e.markers[i].primary
  \/ e.element = "Origin" /\ e.primary

has_path(e) == e.element \in {"Cause", "Origin"}

\* primary_path: of the first element with a primary marker, else of the
\* first element that has a path
primary_path(elements) ==
  IF \E i \in 1..Len(elements) : has_primary(elements[i])
  THEN element_path(elements[MinOf({i \in 1..Len(elements) : has_primary(elements[i])}, 0)])
  ELSE IF \E i \in 1..Len(elements) : has_path(elements[i])
  THEN element_path(elements[MinOf({i \in 1..Len(elements) : has_path(elements[i])}, 0)])
  ELSE None

\* max_depth over the Causes of a group
group_max_depth(elements) ==
  MaxOf({max_depth(elements[i]) : i \in {k \in 1..Len(elements) : is_cause(elements[k])}}, 0)

\* the location in the header of an excerpt that is not the primary one
secondary_origin(path, al) ==
  IF al = <<>> THEN OriginPath(path)
  ELSE [OriginPath(path) EXCEPT
          !.line = Some(al[1].line_index),
          !.char_column = IF al[1].annotations = <<>> THEN None
                          ELSE Some(al[1].annotations[1].start_char + 1)]

\* the location row and the spacer row below it
located_header(r, buf, num_len, origin) ==
  draw_col_separator_no_space(r.theme,
                              render_origin(r, buf, num_len, origin, num_lines(buf)),
                              num_lines(buf) + 1, num_len + 1)

\* render_snippet_annotations, before the margin is computed
cause_header(r, buf, num_len, cause, primary, al) ==
  IF cause.path.some /\ primary
  THEN located_header(r, buf, num_len, primary_origin(cause.path.v, al))
  ELSE IF cause.path.some
  THEN located_header(r,
                      draw_col_separator_no_space(r.theme, buf, num_lines(buf), num_len + 1),
                      num_len, secondary_origin(cause.path.v, al))
  ELSE IF primary /\ r.theme = "Unicode"
  THEN puts(buf, num_lines(buf), num_len, file_start(r.theme), "LineNumber")
  ELSE IF primary
  THEN draw_col_separator_no_space(r.theme, buf, num_lines(buf), num_len + 1)
  ELSE puts(draw_col_separator_no_space(r.theme, buf, num_lines(buf), num_len + 1),
            num_lines(buf) + 1, num_len, secondary_file_start(r.theme), "LineNumber")

\* the loop over the annotated lines of an excerpt
RECURSIVE render_cause_lines(_, _, _, _, _, _, _, _, _)
render_cause_lines(r, cause, run, idx, al, wo, co, mll, margin) ==
  IF idx > Len(al) \/ ~Evaluated(run) THEN run.buffer
  ELSE render_cause_lines(r, cause,
                          extended(render_line(r, cause, run, idx, al, wo, co, mll, margin)),
                          idx + 1, al, wo, co, mll, margin)

cause_code_offset(num_len, multiline_depth) ==
  IF multiline_depth = 0 THEN 3 + num_len ELSE 3 + num_len + multiline_depth + 1

render_snippet_annotations(r, buf, num_len, cause, primary, al, multiline_depth, is_cont) ==
  render_cause_lines([r EXCEPT !.is_cont = is_cont], cause,
                     [buffer |-> cause_header(r, buf, num_len, cause, primary, al),
                      multilines |-> <<>>],
                     1, al, 3 + num_len, cause_code_offset(num_len, multiline_depth), num_len,
                     margin_for(al, SatSub(r.term_width,
                                           cause_code_offset(num_len, multiline_depth))))

\* the element after element i, if any
peek_is(elements, i, kinds) == i < Len(elements) /\ elements[i + 1].element \in kinds

\* after an excerpt of the first group: the separator that leads on
cause_tail(r, ctx, elements, i, buf) ==
  IF ctx.g # 0 \/ ~Evaluated(buf) THEN buf
  ELSE IF peek_is(elements, i, {"Message"})
  THEN draw_col_separator_no_space(r.theme, buf, num_lines(buf), ctx.num_len + 1)
  ELSE IF peek_is(elements, i, {"Origin"}) /\ elements[i + 1].primary
  THEN draw_col_separator_end(r.theme, buf, num_lines(buf), ctx.num_len + 1)
  ELSE IF i = Len(elements) /\ ctx.group_len > 1
  THEN draw_col_separator_end(r.theme, buf, num_lines(buf), ctx.num_len + 1)
  ELSE buf

\* is_primary of a Cause: its path is the primary path and no element
\* before it was the primary one
cause_is_primary(ctx, elements, i, seen_primary) ==
  ctx.primary_path = elements[i].path /\ ~seen_primary

render_cause(r, ctx, elements, i, st, primary) ==
  [buffer |-> cause_tail(r, ctx, elements, i,
                         render_snippet_annotations(
                           r, st.buffer, ctx.num_len, elements[i], primary,
                           annotated_lines(elements[i]), ctx.max_depth,
                           i < Len(elements) \/ (ctx.g = 0 /\ ctx.group_len > 1))),
   seen_primary |-> st.seen_primary \/ primary,
   primary_at |-> IF primary THEN Append(st.primary_at, i) ELSE st.primary_at,
   last_was_suggestion |-> FALSE, blocks |-> st.blocks, is_conts |-> st.is_conts]

render_message(r, ctx, elements, i, st) ==
  [st EXCEPT !.buffer = render_title(r, st.buffer, elements[i], ctx.num_len, "Secondary",
                                     peek_is(elements, i, {"Message", "Padding"}),
                                     num_lines(st.buffer)),
             !.last_was_suggestion = FALSE]

\* after an Origin of the first group: the separator that leads on
origin_tail(r, ctx, elements, i, buf) ==
  IF ctx.g # 0 \/ ~Evaluated(buf) THEN buf
  ELSE IF i = Len(elements) /\ ctx.group_len > 1
  THEN draw_col_separator_end(r.theme, buf, num_lines(buf), ctx.num_len + 1)
  ELSE IF peek_is(elements, i, {"Message"})
  THEN draw_col_separator_no_space(r.theme, buf, num_lines(buf), ctx.num_len + 1)
  ELSE buf

render_origin_element(r, ctx, elements, i, st) ==
  [st EXCEPT
     !.buffer = origin_tail(r, ctx, elements, i,
                            render_origin(r, st.buffer, ctx.num_len, elements[i],
                                          num_lines(st.buffer))),
     !.seen_primary = @ \/ ctx.primary_path = Some(elements[i].path),
     !.last_was_suggestion = FALSE]

render_padding(r, ctx, elements, i, st) ==
  [st EXCEPT
     !.buffer = IF i = Len(elements)
                THEN draw_col_separator_end(r.theme, @, num_lines(@), ctx.num_len + 1)
                ELSE draw_col_separator_no_space(r.theme, @, num_lines(@), ctx.num_len + 1)]

\* Renderer::diff: the marker of a replacement
diff(theme) == IF theme = "Ascii" THEN "~" ELSE "U+00B1"

\* Renderer::multi_suggestion_separator
multi_suggestion_separator(theme) ==
  IF theme = "Ascii" THEN <<"|">> ELSE <<"U+251C", "U+2574">>

\* Renderer::draw_col_separator: the separator and a space
draw_col_separator(theme, buf, line, col) ==
  puts(buf, line, col, <<col_separator(theme), " ">>, "LineNumber")

\* Renderer::draw_col_separator_start
draw_col_separator_start(theme, buf, line, col) ==
  IF theme = "Ascii" THEN putc(buf, line, col, "|", "LineNumber")
  ELSE putc(putc(buf, line, col, "U+256D", "LineNumber"), line, col + 1, "U+2574", "LineNumber")

\* str::len of file_start: the glyphs of the Unicode theme take 3 bytes
file_start_len(theme) == IF theme = "Ascii" THEN Len(file_start(theme)) ELSE 1 + 3 + 3 + 1

code_line_number(r, line_num, num_len) ==
  maybe_anonymized(r.anonymized_line_numbers, line_num, num_len)

\* a row "NN - text" of the Diff mode
removed_line(r, buf, row, line_num, num_len, text, style) ==
  puts(puts(puts(buf, row, 0, code_line_number(r, line_num, num_len), "LineNumber"),
            row, num_len + 1, <<"-", " ">>, "Removal"),
       row, num_len + 3, normalize_whitespace(text), style)

\* draw_code_line, Diff: the lines to remove but the last
RECURSIVE remove_lines(_, _, _, _, _, _)
remove_lines(r, bs, file_lines, index, line_num, num_len) ==
  IF index >= Len(file_lines) \/ ~Evaluated(bs) THEN bs
  ELSE remove_lines(r,
                    [buffer |-> removed_line(r, bs.buffer, bs.row_num - 1, line_num + index - 1,
                                             num_len, file_lines[index], "NoStyle"),
                     row_num |-> bs.row_num + 1],
                    file_lines, index + 1, line_num, num_len)

\* a row "NN + text"
added_line(r, buf, row, line_num, num_len, text) ==
  append(puts(puts(buf, row, 0, code_line_number(r, line_num, num_len), "LineNumber"),
              row, num_len + 1, <<"+", " ">>, "Addition"),
         row, normalize_whitespace(text), "NoStyle")

\* draw_code_line, Diff: the last line to remove and the line to add
diff_last_line(r, bs, line_num, line_to_add, num_len, file_lines) ==
  IF file_lines[Len(file_lines)] = line_to_add THEN [bs EXCEPT !.row_num = @ - 2]
  ELSE IF is_blank(line_to_add)
  THEN [buffer |-> removed_line(r, bs.buffer, bs.row_num - 1, line_num + Len(file_lines) - 1,
                                num_len, file_lines[Len(file_lines)], "NoStyle"),
        row_num |-> bs.row_num - 1]
  ELSE [buffer |-> added_line(r,
                              removed_line(r, bs.buffer, bs.row_num - 1,
                                           line_num + Len(file_lines) - 1, num_len,
                                           file_lines[Len(file_lines)], "NoStyle"),
                              bs.row_num, line_num, num_len, line_to_add),
        row_num |-> bs.row_num]

\* draw_code_line, a result of several lines: the gutter of a line
multiline_gutter(r, buf, row, highlight_parts, line_to_add, num_len) ==
  IF Len(highlight_parts) = 1 /\ highlight_parts[1].start = 0
     /\ highlight_parts[1].end = str_len(line_to_add)
  THEN puts(buf, row, num_len + 1, <<"+", " ">>, "Addition")
  ELSE IF highlight_parts = <<>>
  THEN draw_col_separator_no_space(r.theme, buf, row, num_len + 1)
  ELSE puts(buf, row, num_len + 1, <<diff(r.theme), " ">>, "Addition")

\* draw_code_line: the row of the line
code_line_text(r, bs, highlight_parts, line_num, line_to_add, mode, num_len, file_lines, multi) ==
  CASE mode = "Diff" ->
         diff_last_line(r, remove_lines(r, bs, file_lines, 1, line_num, num_len),
                        line_num, line_to_add, num_len, file_lines)
    [] mode # "Diff" /\ multi ->
         [bs EXCEPT !.buffer =
            puts(multiline_gutter(r,
                                  puts(@, bs.row_num, 0,
                                       code_line_number(r, line_num, num_len), "LineNumber"),
                                  bs.row_num, highlight_parts, line_to_add, num_len),
                 bs.row_num, num_len + 3, normalize_whitespace(line_to_add), "NoStyle")]
    [] mode = "Add" /\ ~multi ->
         [bs EXCEPT !.buffer = added_line(r, @, bs.row_num, line_num, num_len, line_to_add)]
    [] OTHER ->
         [bs EXCEPT !.buffer =
            append(draw_col_separator(r.theme,
                                      puts(@, bs.row_num, 0,
                                           code_line_number(r, line_num, num_len),
                                           "LineNumber"),
                                      bs.row_num, num_len + 1),
                   bs.row_num, normalize_whitespace(line_to_add), "NoStyle")]

\* the tabs before a column take 3 columns more each
tabs_before(line_to_add, start) ==
  3 * Cardinality({k \in 1..Min2(start, Len(line_to_add)) : line_to_add[k] = "TAB"})

\* draw_code_line: the new text of the line is styled as an addition
RECURSIVE code_line_styles(_, _, _, _, _, _)
code_line_styles(buf, row, highlight_parts, k, line_to_add, num_len) ==
  IF k > Len(highlight_parts) \/ ~Evaluated(buf) THEN buf
  ELSE code_line_styles(
         IF highlight_parts[k].start # highlight_parts[k].end
         THEN set_style_range(
                buf, row,
                num_len + 3 + highlight_parts[k].start
                  + tabs_before(line_to_add, highlight_parts[k].start),
                num_len + 3 + highlight_parts[k].end
                  + tabs_before(line_to_add, highlight_parts[k].start),
                "Addition", TRUE)
         ELSE buf,
         row, highlight_parts, k + 1, line_to_add, num_len)

code_line_styled(bs, highlight_parts, line_to_add, num_len) ==
  [buffer |-> code_line_styles(bs.buffer, bs.row_num, highlight_parts, 1, line_to_add, num_len),
   row_num |-> bs.row_num + 1]

\* Renderer::draw_code_line
draw_code_line(r, bs, highlight_parts, line_num, line_to_add, mode, num_len, file_lines, multi) ==
  code_line_styled(code_line_text(r, bs, highlight_parts, line_num, line_to_add, mode,
                                  num_len, file_lines, multi),
                   highlight_parts, line_to_add, num_len)

\* the number of the line the first patch of a block lies in, and the lines
\* its span covers
block_line(src, blk) == src.line_start + blk.parts[1].line - 1

block_file_lines(src, blk) == <<src.lines[blk.parts[1].line]>>

\* the separator above a block: the start of the suggestions or the
\* separator between two blocks
block_separator(r, bs, i, num_len) ==
  [bs EXCEPT !.buffer =
     IF i = 0 THEN draw_col_separator_start(r.theme, @, bs.row_num - 1, num_len + 1)
     ELSE puts(@, bs.row_num - 1, num_len + 1, multi_suggestion_separator(r.theme),
               "LineNumber")]

\* format!("{}:{}:{}", path, loc.line, loc.char + 1)
block_origin(src, blk) ==
  src.path.v \o <<":">> \o to_string(block_line(src, blk)) \o <<":">>
    \o to_string(blk.parts[1].sc + 1)

block_path_text(r, buf, row, message, num_len, is_cont) ==
  IF is_cont THEN append(buf, row, message, "LineAndColumn")
  ELSE puts(buf, row, Max2(num_len + 1, file_start_len(r.theme)), message, "LineAndColumn")

\* the path of a suggestion that is not for the primary path
block_path(r, bs, src, blk, num_len, primary, is_cont) ==
  IF src.path # primary /\ src.path.some
  THEN [buffer |-> draw_col_separator_no_space(
                     r.theme,
                     prepend_times(
                       block_path_text(r,
                                       puts(bs.buffer, bs.row_num - 1, 0, file_start(r.theme),
                                            "LineNumber"),
                                       bs.row_num - 1, block_origin(src, blk), num_len, is_cont),
                       bs.row_num - 1, <<" ">>, "NoStyle", num_len),
                     bs.row_num, num_len + 1),
        row_num |-> bs.row_num + 1]
  ELSE bs

\* a suggestion that leaves no line: the line is shown as removed
block_removed(r, bs, src, blk, num_len, mode) ==
  IF str_lines(blk.complete) = <<>>
  THEN [buffer |-> removed_line(r, bs.buffer,
                                bs.row_num + (IF mode = "Diff" THEN 1 ELSE 0) - 1,
                                block_line(src, blk), num_len,
                                get_line(src, block_line(src, blk)), "Removal"),
        row_num |-> bs.row_num + (IF mode = "Diff" THEN 1 ELSE 0)]
  ELSE [bs EXCEPT !.row_num = @ + (IF mode = "Diff" THEN 1 ELSE 0)]

starts_with(s, t) == Len(t) <= Len(s) /\ SubSeq(s, 1, Len(t)) = t

is_attribute_line(line, highlight_parts) ==
  /\ Len(highlight_parts) = 1
  /\ starts_with(str_trim(line), <<"#", "[">>)
  /\ ends_with(str_trim(line), <<"]">>)

\* the row of the placeholder between lines that are not highlighted
elided_row(r, bs, num_len) ==
  [buffer |-> puts(bs.buffer, bs.row_num,
                   SatSub(num_len, str_width(margin_placeholder(r.theme))),
                   margin_placeholder(r.theme), "LineNumber"),
   row_num |-> bs.row_num + 1]

\* the lines without a highlight that were held back, drawn one by one
RECURSIVE draw_unhighlighted(_, _, _, _, _, _, _, _)
draw_unhighlighted(r, bs, src, blk, mode, num_len, held, k) ==
  IF k > Len(held) \/ ~Evaluated(bs) THEN bs
  ELSE draw_unhighlighted(
         r,
         draw_code_line(r, bs, <<>>, held[k] + block_line(src, blk),
                        str_lines(blk.complete)[held[k] + 1], mode, num_len,
                        block_file_lines(src, blk), Len(str_lines(blk.complete)) > 1),
         src, blk, mode, num_len, held, k + 1)

\* up to three of them are all drawn; of more, the first and the last
flush_unhighlighted(r, bs, src, blk, mode, num_len, held) ==
  IF Len(held) <= 3 THEN draw_unhighlighted(r, bs, src, blk, mode, num_len, held, 1)
  ELSE draw_unhighlighted(
         r,
         elided_row(r, draw_unhighlighted(r, bs, src, blk, mode, num_len, <<held[1]>>, 1),
                    num_len),
         src, blk, mode, num_len, <<held[Len(held)]>>, 1)

\* one line of the result with its highlights
block_line_step(r, ls, src, blk, mode, num_len, line_pos) ==
  IF blk.highlights[line_pos + 1] = <<>>
  THEN [ls EXCEPT !.last_pos = line_pos, !.held = Append(@, line_pos)]
  ELSE [bs |-> draw_code_line(r,
                              flush_unhighlighted(r, ls.bs, src, blk, mode, num_len, ls.held),
                              blk.highlights[line_pos + 1], line_pos + block_line(src, blk),
                              str_lines(blk.complete)[line_pos + 1], mode, num_len,
                              block_file_lines(src, blk), Len(str_lines(blk.complete)) > 1),
        last_pos |-> line_pos,
        is_item_attribute |->
          ls.is_item_attribute
            \/ is_attribute_line(str_lines(blk.complete)[line_pos + 1],
                                 blk.highlights[line_pos + 1]),
        held |-> <<>>]

\* the loop over the lines of the result paired with their highlights
RECURSIVE block_lines(_, _, _, _, _, _, _)
block_lines(r, ls, src, blk, mode, num_len, line_pos) ==
  IF line_pos >= Min2(Len(str_lines(blk.complete)), Len(blk.highlights)) \/ ~Evaluated(ls)
  THEN ls
  ELSE block_lines(r, block_line_step(r, ls, src, blk, mode, num_len, line_pos),
                   src, blk, mode, num_len, line_pos + 1)

\* what the loop leaves of the lines: the pairing takes one line more
\* before it finds that the highlights have run out
lines_left(blk) == Len(str_lines(blk.complete)) > Len(blk.highlights) + 1

\* after an added attribute the line that follows it is shown
block_following(r, ls, src, blk, mode, num_len) ==
  IF mode = "Add" /\ ls.is_item_attribute /\ blk.parts[1].line <= Len(src.lines)
  THEN draw_code_line(r, ls.bs, <<>>, block_line(src, blk) + ls.last_pos + 1,
                      normalize_whitespace(get_line(src, block_line(src, blk))), "None",
                      num_len, block_file_lines(src, blk), Len(str_lines(blk.complete)) > 1)
  ELSE ls.bs

\* a fault: what a patch removes beyond what it puts is not counted
offset_before_unsigned(offsets, span_start_pos) ==
  FoldLeft(LAMBDA acc, o : IF span_start_pos < o.start \/ o.v < 0 THEN acc ELSE acc + o.v,
           0, offsets)

\* the sum of what the patches that end at or before a column added
offset_before(offsets, span_start_pos) ==
  FoldLeft(LAMBDA acc, o : IF span_start_pos < o.start THEN acc ELSE acc + o.v, 0, offsets)

\* leading whitespace is not underlined, unless the replacement is nothing
\* but whitespace
underline_lead(p) ==
  IF is_blank(p.replacement) THEN 0
  ELSE SatSub(str_len(p.replacement), str_len(str_trim_start(p.replacement)))

\* a fault: the whitespace at the ends of the replacement is counted
underline_len_untrimmed(p) == str_width(p.replacement)

\* nor is trailing whitespace
underline_len(p) ==
  str_width(IF is_blank(p.replacement) THEN p.replacement ELSE str_trim(p.replacement))

\* the markers of a patch in Underline mode: '+' under an addition, the
\* diff glyph under a replacement
underline_markers(r, buf, src, p, mode, row_num, from, num_len) ==
  IF mode = "Underline"
  THEN draw_range(buf, IF is_addition(src, p) THEN "+" ELSE diff(r.theme), row_num,
                  num_len + 3 + from, num_len + 3 + from + underline_len(p), "Addition")
  ELSE buf

\* the text a patch removes is styled as a removal in Diff mode (the text
\* lies within one line)
removal_style(buf, src, p, mode, row_num, span_start_pos, span_end_pos, num_len) ==
  IF mode # "Diff" THEN buf
  ELSE IF Len(str_lines(patch_snippet(src, p))) > 0
          /\ row_num > Len(str_lines(patch_snippet(src, p)))
  THEN set_style_range(buf, row_num - 2, num_len + 3 + span_start_pos,
                       num_len + 3 + span_start_pos
                         + str_len(normalize_whitespace(patch_snippet(src, p))),
                       "Removal", TRUE)
  ELSE set_style_range(buf, row_num - 2, num_len + 3 + span_start_pos,
                       num_len + 3 + span_end_pos, "Removal", TRUE)

\* underline_start of a patch
underline_start(offsets, p, span_start_pos) ==
  span_start_pos + underline_lead(p) + offset_before(offsets, span_start_pos)

\* one patch of the block: its markers, and what it adds to the columns of
\* the patches after it; underlines keeps underline_start and underline_end
\* as the assertion reads them
underline_part(r, us, src, p, mode, row_num, num_len, span_start_pos, span_end_pos) ==
  [buffer |-> removal_style(
                underline_markers(r, us.buffer, src, p, mode, row_num,
                                  underline_start(us.offsets, p, span_start_pos), num_len),
                src, p, mode, row_num, span_start_pos, span_end_pos, num_len),
   offsets |-> Append(us.offsets,
                      [start |-> span_end_pos,
                       v |-> str_width(p.replacement) - (span_end_pos - span_start_pos)]),
   underlines |-> Append(us.underlines,
                         [start |-> underline_start(us.offsets, p, span_start_pos),
                          end |-> underline_start(us.offsets, p, span_start_pos)
                                    + underline_len(p)])]

RECURSIVE underline_parts(_, _, _, _, _, _, _, _)
underline_parts(r, us, src, parts, k, mode, row_num, num_len) ==
  IF k > Len(parts) \/ ~Evaluated(us) THEN us
  ELSE underline_parts(
         r,
         underline_part(r, us, src, parts[k], mode, row_num, num_len,
                        loc_display(src.lines[parts[k].line], parts[k].sc),
                        loc_display(src.lines[parts[k].line], parts[k].ec)),
         src, parts, k + 1, mode, row_num, num_len)

\* the canvas and the columns after the loop over the patches
block_underlined(bs, us) ==
  [buffer |-> us.buffer, row_num |-> bs.row_num + 1, underlines |-> us.underlines]

\* the row of the markers follows the code rows in all modes but None
block_underlines(r, bs, src, blk, mode, num_len) ==
  IF mode \in {"Diff", "Underline", "Add"}
  THEN block_underlined(bs,
                        underline_parts(r, [buffer |-> bs.buffer, offsets |-> <<>>,
                                            underlines |-> <<>>],
                                        src, blk.parts, 1, mode, bs.row_num, num_len))
  ELSE [buffer |-> bs.buffer, row_num |-> bs.row_num, underlines |-> <<>>]

\* the end of a block: the placeholder when lines remain, else the closing
\* separator, on the row of the markers when there is one
block_end(r, bs, blk, mode, num_len) ==
  IF lines_left(blk)
  THEN [bs EXCEPT !.buffer = puts(@, bs.row_num,
                                  SatSub(num_len, str_width(margin_placeholder(r.theme))),
                                  margin_placeholder(r.theme), "LineNumber")]
  ELSE [bs EXCEPT !.buffer = draw_col_separator_end(r.theme, @,
                                                    IF mode = "None" THEN bs.row_num
                                                    ELSE bs.row_num - 1,
                                                    num_len + 1),
                  !.row_num = (IF mode = "None" THEN bs.row_num ELSE bs.row_num - 1) + 1]

\* the rows of the code of a block
block_code(r, bs, src, blk, mode, num_len) ==
  block_following(r,
                  block_lines(r, [bs |-> bs, last_pos |-> 0, is_item_attribute |-> FALSE,
                                  held |-> <<>>],
                              src, blk, mode, num_len, 0),
                  src, blk, mode, num_len)

\* what is kept of a block for the record: its mode, the row its markers
\* are written on and the rows before and after it
block_record(src, blk, mode, code, done) ==
  [src |-> src, mode |-> mode, parts |-> blk.parts, complete |-> blk.complete,
   highlights |-> blk.highlights, underlines |-> done.underlines,
   marker_row |-> code.row_num, next_row |-> done.row_num]

block_finish(r, es, src, blk, mode, num_len, code, done) ==
  [buffer |-> done.buffer, row_num |-> done.row_num,
   blocks |-> Append(es.blocks, block_record(src, blk, mode, code, done))]

block_marked(r, es, src, blk, mode, num_len, code) ==
  block_finish(r, es, src, blk, mode, num_len, code,
               block_end(r, block_underlines(r, code, src, blk, mode, num_len), blk, mode,
                         num_len))

\* one iteration of the loop over the blocks of a suggestion
emit_block(r, es, src, blk, i, mode, num_len, primary, is_cont) ==
  block_marked(r, es, src, blk, mode, num_len,
               block_code(r,
                          block_removed(r,
                                        block_path(r,
                                                   block_separator(r, es, i, num_len),
                                                   src, blk, num_len, primary, is_cont),
                                        src, blk, num_len, mode),
                          src, blk, mode, num_len))

RECURSIVE emit_blocks(_, _, _, _, _, _, _, _)
emit_blocks(r, es, src, blks, i, num_len, primary, is_cont) ==
  IF i >= Len(blks) \/ ~Evaluated(es) THEN es
  ELSE emit_blocks(r,
                   emit_block(r, es, src, blks[i + 1], i,
                              show_code_change(src, blks[i + 1].parts, blks[i + 1].complete),
                              num_len, primary, is_cont),
                   src, blks, i + 1, num_len, primary, is_cont)

\* Renderer::emit_suggestion_default: the canvas with the blocks of the
\* suggestion, and the record of the blocks
emit_suggestion_default(r, buf, src, num_len, primary, is_cont) ==
  emit_blocks(r,
              [buffer |-> buf, row_num |-> num_lines(buf) + (IF is_cont THEN 0 ELSE 1),
               blocks |-> <<>>],
              src, splice_lines(src), 0, num_len, primary, is_cont)

\* primary_path.or(og_primary_path)
suggestion_primary_path(ctx) ==
  IF ctx.primary_path.some THEN ctx.primary_path ELSE ctx.og_primary_path

\* the canvas after the suggestion, the record of its blocks, of the
\* is_cont it was emitted with and of the rows of the canvas before and
\* after it; last_was_suggestion = true
suggestion_done(st, es) ==
  [st EXCEPT !.buffer = es.buffer, !.blocks = @ \o es.blocks,
             !.is_conts = Append(@, [is_cont |-> st.last_was_suggestion,
                                     rows_before |-> num_lines(st.buffer),
                                     rows_after |-> num_lines(es.buffer)]),
             !.last_was_suggestion = TRUE]

render_suggestion(r, ctx, elements, i, st) ==
  suggestion_done(st,
                  emit_suggestion_default(r, st.buffer, elements[i], ctx.num_len,
                                          suggestion_primary_path(ctx),
                                          st.last_was_suggestion))

\* one iteration of the loop over the elements of a group
render_element(r, ctx, elements, i, st) ==
  CASE elements[i].element = "Message" -> render_message(r, ctx, elements, i, st)
    [] elements[i].element = "Cause" ->
         render_cause(r, ctx, elements, i, st,
                      cause_is_primary(ctx, elements, i, st.seen_primary))
    [] elements[i].element = "Origin" -> render_origin_element(r, ctx, elements, i, st)
    [] elements[i].element = "Suggestion" -> render_suggestion(r, ctx, elements, i, st)
    [] OTHER -> render_padding(r, ctx, elements, i, st)

RECURSIVE render_elements(_, _, _, _, _)
render_elements(r, ctx, elements, i, st) ==
  IF i > Len(elements) \/ ~Evaluated(st) THEN st
  ELSE render_elements(r, ctx, elements, i + 1, render_element(r, ctx, elements, i, st))

\* after the title of a group: the separator that leads on
title_tail(r, ctx, elements, buf) ==
  IF peek_is(elements, 0, {"Message"})
  THEN draw_col_separator_no_space(r.theme, buf, num_lines(buf), ctx.num_len + 1)
  ELSE IF elements = <<>> /\ ctx.g = 0 /\ ctx.group_len > 1
  THEN draw_col_separator_end(r.theme, buf, num_lines(buf), ctx.num_len + 1)
  ELSE buf

group_title(r, ctx, group) ==
  IF group.title.some
  THEN title_tail(r, ctx, group.elements,
                  render_title(r, <<>>, group.title.v, ctx.num_len,
                               IF ctx.g = 0 THEN "MainHeader" ELSE "Header",
                               peek_is(group.elements, 0, {"Message"}), 0))
  ELSE <<>>

\* og_primary_path: the primary path of the first group that has one
og_primary_path(gs, gi) ==
  IF \E j \in 1..(gi + 1) : primary_path(gs[j].elements).some
  THEN primary_path(gs[MinOf({j \in 1..(gi + 1) : primary_path(gs[j].elements).some},
                             0)].elements)
  ELSE None

group_ctx(gs, gi, num_len) ==
  [g |-> gi, group_len |-> Len(gs), num_len |-> num_len,
   primary_path |-> primary_path(gs[gi + 1].elements),
   og_primary_path |-> og_primary_path(gs, gi),
   max_depth |-> group_max_depth(gs[gi + 1].elements)]

\* a fault: a line break after every group
group_separator_always(gi, group_len) == <<"LF">>

\* writeln!(out_string) unless the group is the last one
group_separator(gi, group_len) == IF gi # group_len - 1 THEN <<"LF">> ELSE <<>>

\* one iteration of the loop over the groups: the canvas of group g and the
\* elements that were rendered as the primary excerpt
render_group(r, gs, gi, num_len) ==
  render_elements(r, group_ctx(gs, gi, num_len), gs[gi + 1].elements, 1,
                  [buffer |-> group_title(r, group_ctx(gs, gi, num_len), gs[gi + 1]),
                   seen_primary |-> FALSE, primary_at |-> <<>>,
                   last_was_suggestion |-> FALSE, blocks |-> <<>>, is_conts |-> <<>>])

(***************************************************************************)
(* Reports: titles, excerpts with a path, groups                           *)
(***************************************************************************)
RendererWith(term_width, theme, anon, short) ==
  [term_width |-> term_width, theme |-> theme, anonymized_line_numbers |-> anon,
   is_cont |-> FALSE, short_message |-> short]

LevelOf(name, shown) == [name |-> name, shown |-> shown]

ERROR == LevelOf(<<"e", "r", "r">>, TRUE)

IdOf(id, url) == [id |-> id, url |-> url]

TitleOf(level, id, text) == [level |-> level, id |-> id, text |-> text, pre_styled |-> FALSE]

CauseOf(path, lines, line_start, fold, markers) ==
  [element |-> "Cause", path |-> path, lines |-> lines, line_start |-> line_start,
   fold |-> fold, markers |-> markers]

GroupOf(title, elements) == [title |-> title, elements |-> elements]

\* a single-line marker with the given label
Labelled(line, sc, ec, primary, label) ==
  [Marker(line, sc, line, ec, primary, 0, 0, {}) EXCEPT !.label = label]

\* the empty excerpt: the state of a call that renders no excerpt by itself
NoSnippet == SnippetOf(<<>>, 1, FALSE, <<>>)

\* identifiers: none, a code, a code with a URL, a URL without a code
Ids ==
  {None, Some(IdOf(Some(<<"E", "1">>), None)),
   Some(IdOf(Some(<<"E", "1">>), Some(<<"u", "r", "l">>))),
   Some(IdOf(None, Some(<<"u", "r", "l">>)))}

\* title texts: one row, two rows, none
TitleTexts == {<<"t">>, <<"t", "LF", "u", "v">>, <<>>}

\* the markers of a one-line excerpt: primary ones with a label, with a
\* blank label or without one, and one that is not primary
ShortMarkerLists ==
  {<<>>,
   <<Labelled(1, 2, 4, TRUE, <<"x">>)>>,
   <<Labelled(1, 4, 6, TRUE, <<"x">>), Labelled(1, 1, 2, TRUE, <<"y">>)>>,
   <<Labelled(1, 4, 6, FALSE, <<"c">>), Labelled(1, 1, 2, TRUE, <<" ">>)>>,
   <<Labelled(1, 0, 2, FALSE, <<"c">>), Marker(1, 3, 1, 5, TRUE, -1, 0, {})>>}

ShortCauses ==
  {CauseOf(path, <<<<"a", "b", "c", "d", "e", "f">>>>, 7, TRUE, ms) :
     path \in {None, Some(<<"p">>)}, ms \in ShortMarkerLists}

ShortTitles ==
  {TitleOf(LevelOf(<<"e", "r", "r">>, shown), id, text) :
     shown \in BOOLEAN, id \in Ids, text \in TitleTexts}

\* the reports of a short-message call: no group, a group without a title,
\* a group with a title; then a second group
ShortGroups ==
  {GroupOf(None, <<c>>) : c \in ShortCauses}
    \cup {GroupOf(Some(t), <<>>) : t \in ShortTitles}
    \cup {GroupOf(Some(TitleOf(ERROR, None, text)), <<c>>) :
            text \in TitleTexts, c \in ShortCauses}
    \cup {GroupOf(Some(TitleOf(ERROR, None, <<"t">>)),
                  <<CauseOf(None, <<<<"a", "b">>>>, 1, TRUE, <<Labelled(1, 0, 1, TRUE, <<"n">>)>>),
                    c>>) : c \in ShortCauses}

ShortInputs ==
  {[groups |-> gs, rd |-> RendererWith(DEFAULT_TERM_WIDTH, theme, FALSE, TRUE)] :
     gs \in {<<>>} \cup {<<gr>> : gr \in ShortGroups}
              \cup {<<gr, GroupOf(Some(TitleOf(ERROR, None, <<"h">>)),
                              <<CauseOf(Some(<<"q">>), <<<<"a", "b">>>>, 1, TRUE,
                                        <<Labelled(1, 0, 1, TRUE, <<"z">>)>>)>>)>> :
                      gr \in ShortGroups},
     theme \in Themes}

(***************************************************************************)
(* The state machine of a call of render in short-message mode             *)
(***************************************************************************)
InitReport(inputs) ==
  /\ \E inp \in inputs : groups = inp.groups /\ rd = inp.rd
  /\ sn = NoSnippet
  /\ pc = "start"
  /\ annotated_line_idx = 0
  /\ buffer = <<>>
  /\ multilines = <<>>
  /\ again = [buffer |-> <<>>, multilines |-> <<>>]
  /\ flipped = [buffer |-> <<>>, multilines |-> <<>>]
  /\ fault = FALSE
  /\ layout = <<>>
  /\ g = 0
  /\ out_string = <<>>

InitShort == InitReport(ShortInputs)

\* Renderer::render with short_message set: render_short_message(..).unwrap()
RenderShort ==
  /\ pc = "start"
  /\ rd.short_message
  /\ \E r \in {render_short_message(rd, groups)} :
       /\ pc' = IF r.panicked THEN "panicked" ELSE "done"
       /\ buffer' = r.buffer
       /\ out_string' = r.out_string
  /\ UNCHANGED <<sn, rd, annotated_line_idx, multilines, again, flipped, fault, layout,
                 groups, g>>

SpecShort == InitShort /\ [][RenderShort]_vars

(***************************************************************************)
(* Reports for a call of render in full mode                               *)
(***************************************************************************)
MessageOf(level, text) ==
  [element |-> "Message", level |-> level, id |-> None, text |-> text, pre_styled |-> FALSE]

NOTE == LevelOf(<<"n", "o", "t", "e">>, TRUE)

OriginOf(path, line, char_column, primary) ==
  [element |-> "Origin", path |-> path, line |-> line, char_column |-> char_column,
   primary |-> primary]

PaddingOf == [element |-> "Padding"]

\* a Suggestion element: an excerpt with patches
SuggestionOf(path, lines, line_start, fold, patches) ==
  [element |-> "Suggestion", path |-> path, lines |-> lines, line_start |-> line_start,
   fold |-> fold, markers |-> patches]

\* a patch: the columns sc..ec of a line are replaced
PatchOf(line, sc, ec, replacement) ==
  [line |-> line, sc |-> sc, ec |-> ec, replacement |-> replacement]

\* an absent line or column
NoNumber == [some |-> FALSE, v |-> 0]

\* the excerpts of a group: each with its own first line number, with or
\* without a path, with a Primary annotation or with a Context one
ReportCause(line_start, path, primary) ==
  CauseOf(path, <<<<"a", "b", "c", "d">>>>, line_start, TRUE,
          IF primary THEN <<Labelled(1, 2, 3, TRUE, <<"x">>)>>
          ELSE <<Labelled(1, 1, 2, FALSE, <<"c">>)>>)

ReportPaths == {None, Some(<<"p">>)}

ReportCauseLists ==
  {<<ReportCause(4, p1, k1)>> : p1 \in ReportPaths, k1 \in BOOLEAN}
    \cup {<<ReportCause(4, p1, k1), ReportCause(7, p2, k2)>> :
            p1 \in ReportPaths \cup {Some(<<"q">>)}, k1 \in BOOLEAN,
            p2 \in ReportPaths, k2 \in BOOLEAN}
    \cup {<<ReportCause(4, Some(<<"p">>), FALSE), ReportCause(7, None, k2),
            ReportCause(9, p3, k3)>> : k2 \in BOOLEAN, p3 \in ReportPaths, k3 \in BOOLEAN}

\* element lists with the other kinds of element
ReportMixedLists ==
  {<<>>,
   <<MessageOf(NOTE, <<"m">>)>>,
   <<MessageOf(NOTE, <<"m", "LF", "n">>), MessageOf(NOTE, <<"k">>)>>,
   <<ReportCause(4, Some(<<"p">>), TRUE), MessageOf(NOTE, <<"m">>), PaddingOf>>,
   <<ReportCause(4, None, FALSE), PaddingOf, MessageOf(NOTE, <<"m">>)>>,
   <<OriginOf(<<"p">>, Some(3), Some(2), TRUE), ReportCause(4, Some(<<"p">>), TRUE)>>,
   <<ReportCause(4, Some(<<"q">>), FALSE), OriginOf(<<"p">>, Some(3), NoNumber, TRUE)>>,
   <<OriginOf(<<"p">>, NoNumber, NoNumber, FALSE), MessageOf(NOTE, <<"m">>)>>,
   <<OriginOf(<<"q">>, NoNumber, NoNumber, FALSE)>>}

ReportTitles == {None, Some(TitleOf(ERROR, None, <<"t">>))}

\* the groups that may follow the first one
LaterGroups ==
  {<<>>,
   <<GroupOf(Some(TitleOf(NOTE, None, <<"h">>)), <<>>)>>,
   <<GroupOf(Some(TitleOf(NOTE, None, <<"h">>)),
             <<ReportCause(12, Some(<<"p">>), FALSE), ReportCause(2, Some(<<"p">>), TRUE)>>),
     GroupOf(None, <<MessageOf(NOTE, <<"m">>)>>)>>}

ReportInputs ==
  {[groups |-> gs, rd |-> RendererWith(DEFAULT_TERM_WIDTH, theme, anon, FALSE)] :
     gs \in {<<>>} \cup {<<GroupOf(t, es)>> \o later :
                           t \in ReportTitles,
                           es \in ReportCauseLists \cup ReportMixedLists,
                           later \in LaterGroups},
     theme \in Themes, anon \in {FALSE}}
       \cup {[groups |-> <<GroupOf(Some(TitleOf(ERROR, None, <<"t">>)),
                                   <<ReportCause(4, None, FALSE),
                                     ReportCause(7, None, TRUE)>>)>>,
              rd |-> RendererWith(DEFAULT_TERM_WIDTH, "Ascii", TRUE, FALSE)]}

(***************************************************************************)
(* Reports with suggestions                                                *)
(***************************************************************************)
\* the line "f(v)" and the patches tried on it: insertions given as such
\* or as the whole line with text inserted, with and without whitespace
\* around the inserted text, deletions, replacements, an added line, a
\* replacement that holds a line break, two patches, a patch that changes
\* nothing
CallLine == <<"f", "(", "v", ")">>

CallPatchLists ==
  {<<PatchOf(1, 0, 4, <<"f", "(", "v", "?", ")">>)>>,
   <<PatchOf(1, 0, 4, <<"f", "(", " ", "m", "v", ")">>)>>,
   <<PatchOf(1, 0, 4, <<"f", "(", "v", "m", " ", ")">>)>>,
   <<PatchOf(1, 0, 4, <<"f", "(", "v", " ", " ", ")">>)>>,
   <<PatchOf(1, 0, 4, <<"f", "(", "v", ")", "?", "?">>)>>,
   <<PatchOf(1, 0, 4, <<"f", "(", "TAB", "m", "v", ")">>)>>,
   <<PatchOf(1, 3, 3, <<"?">>)>>,
   <<PatchOf(1, 2, 2, <<"TAB", "m">>)>>,
   <<PatchOf(1, 2, 3, <<>>)>>,
   <<PatchOf(1, 0, 4, <<>>)>>,
   <<PatchOf(1, 2, 3, <<"m">>)>>,
   <<PatchOf(1, 2, 3, <<"v", "m">>)>>,
   <<PatchOf(1, 2, 3, <<"v">>)>>,
   <<PatchOf(1, 2, 3, <<"a", "LF", "b">>)>>,
   <<PatchOf(1, 3, 3, <<"?", "LF">>)>>,
   <<PatchOf(1, 0, 0, <<"#", "[", "d", "]", "LF">>)>>,
   <<PatchOf(1, 0, 0, <<"m", "LF">>)>>,
   <<PatchOf(1, 0, 0, <<"m">>), PatchOf(1, 3, 3, <<"?">>)>>,
   <<PatchOf(1, 3, 3, <<"?">>), PatchOf(1, 0, 1, <<"g", "g">>)>>,
   <<PatchOf(1, 0, 1, <<>>), PatchOf(1, 3, 3, <<"?">>)>>}

\* other lines: a wide character or a tab before the patch, a blank line
OtherLinePatches ==
  {[line |-> <<"W", "(", "v", ")">>, patches |-> <<PatchOf(1, 3, 3, <<"?">>)>>],
   [line |-> <<"W", "(", "v", ")">>, patches |-> <<PatchOf(1, 0, 4, <<"W", "(", "v", "?", ")">>)>>],
   [line |-> <<"TAB", "v">>, patches |-> <<PatchOf(1, 2, 2, <<"?">>)>>],
   [line |-> <<" ", " ">>, patches |-> <<PatchOf(1, 0, 0, <<"m">>)>>],
   [line |-> <<" ", " ">>, patches |-> <<PatchOf(1, 0, 2, <<" ", "m", " ">>)>>],
   [line |-> <<"v">>, patches |-> <<PatchOf(1, 0, 1, <<"m", "v", "m">>)>>]}

LinePatches ==
  {[line |-> CallLine, patches |-> ps] : ps \in CallPatchLists} \cup OtherLinePatches

SuggestionPaths == {None, Some(<<"p">>), Some(<<"q">>)}

Suggestions ==
  {SuggestionOf(path, <<lp.line>>, 4, TRUE, lp.patches) :
     path \in SuggestionPaths, lp \in LinePatches}

\* a suggestion alone, after an excerpt, or after another suggestion
SuggestionLists ==
  {<<s>> : s \in Suggestions}
    \cup {<<ReportCause(4, Some(<<"p">>), TRUE), s>> : s \in Suggestions}
    \cup {<<SuggestionOf(None, <<CallLine>>, 4, TRUE, <<PatchOf(1, 3, 3, <<"?">>)>>), s>> :
            s \in Suggestions}

SuggestionInputs ==
  {[groups |-> <<GroupOf(Some(TitleOf(ERROR, None, <<"t">>)), es)>>,
    rd |-> RendererWith(DEFAULT_TERM_WIDTH, theme, FALSE, FALSE)] :
     es \in SuggestionLists, theme \in Themes}
    \cup {[groups |-> <<GroupOf(Some(TitleOf(ERROR, None, <<"t">>)),
                                <<ReportCause(4, Some(<<"p">>), TRUE)>>),
                        GroupOf(Some(TitleOf(NOTE, None, <<"h">>)), <<s>>)>>,
           rd |-> RendererWith(DEFAULT_TERM_WIDTH, "Ascii", anon, FALSE)] :
            s \in Suggestions, anon \in BOOLEAN}

(***************************************************************************)
(* The state machine of a call of render in full mode                      *)
(***************************************************************************)
InitFull == InitReport(ReportInputs)

\* assert!(underline_start >= 0 && underline_end >= 0), of every patch of
\* the blocks
underlines_asserted(blocks) ==
  \A j \in 1..Len(blocks) : \A k \in 1..Len(blocks[j].underlines) :
    blocks[j].underlines[k].start >= 0 /\ blocks[j].underlines[k].end >= 0

\* one iteration of the loop over the groups: the group is drawn on a new
\* canvas, the canvas is flattened onto out_string and, unless the group is
\* the last one, a line break is written; a failed assertion ends the call
RenderGroup ==
  /\ pc \in {"start", "groups"}
  /\ ~rd.short_message
  /\ g < Len(groups)
  /\ \E st \in {render_group(rd, groups, g, report_line_num_len(rd, groups))} :
       /\ buffer' = st.buffer
       /\ out_string' = out_string \o flatten(st.buffer)
                          \o group_separator(g, Len(groups))
       /\ layout' = Append(layout, [primary_at |-> st.primary_at,
                                    from |-> Len(out_string),
                                    text |-> flatten(st.buffer),
                                    blocks |-> st.blocks, is_conts |-> st.is_conts,
                                    canvas |-> st.buffer])
  /\ g' = g + 1
  /\ pc' = IF underlines_asserted(layout'[Len(layout')].blocks) THEN "groups" ELSE "panicked"
  /\ UNCHANGED <<sn, rd, annotated_line_idx, multilines, again, flipped, fault, groups>>

\* after the last group out_string is returned
Return ==
  /\ pc \in {"start", "groups"}
  /\ ~rd.short_message
  /\ g = Len(groups)
  /\ pc' = "done"
  /\ UNCHANGED <<sn, rd, annotated_line_idx, buffer, multilines, again, flipped, fault, layout,
                 groups, g, out_string>>

NextFull == RenderGroup \/ Return

SpecFull == InitFull /\ [][NextFull]_vars

(***************************************************************************)
(* Groups with every order of the kinds of element                         *)
(***************************************************************************)
\* elements of a group by kind: Suggestions without a path and with the
\* path q, a Message, a Cause, an Origin and a Padding
MaxElements == 3

SequenceKinds ==
  {SuggestionOf(None, <<CallLine>>, 4, TRUE, <<PatchOf(1, 3, 3, <<"?">>)>>),
   SuggestionOf(Some(<<"q">>), <<CallLine>>, 4, TRUE, <<PatchOf(1, 2, 3, <<"w">>)>>),
   MessageOf(NOTE, <<"m">>),
   ReportCause(4, Some(<<"p">>), TRUE),
   OriginOf(<<"p">>, Some(3), Some(2), FALSE),
   PaddingOf}

SequenceLists == UNION {[1..n -> SequenceKinds] : n \in 1..MaxElements}

\* a group alone or followed by groups that begin with a Suggestion
SequenceInputs ==
  {[groups |-> <<GroupOf(Some(TitleOf(ERROR, None, <<"t">>)), es)>> \o later,
    rd |-> RendererWith(DEFAULT_TERM_WIDTH, "Ascii", FALSE, FALSE)] :
     es \in SequenceLists,
     later \in {<<>>,
                <<GroupOf(Some(TitleOf(NOTE, None, <<"h">>)),
                          <<SuggestionOf(None, <<CallLine>>, 4, TRUE,
                                         <<PatchOf(1, 3, 3, <<"?">>)>>)>>)>>}}

InitSequence == InitReport(SequenceInputs)

SpecSequence == InitSequence /\ [][NextFull]_vars

InitSuggestion == InitReport(SuggestionInputs)

SpecSuggestion == InitSuggestion /\ [][NextFull]_vars

(***************************************************************************)
(* Suggestions with patches in two lines of an excerpt and lines without   *)
(* a patch between them                                                    *)
(***************************************************************************)
\* the most lines without a patch between two patched lines
MaxRun == 5

\* an excerpt of one-letter lines
RunLines == [k \in 1..(MaxRun + 2) |-> <<LabelLine[k]>>]

\* the first line is changed or replaced by what it is; so is a later line,
\* or text is added at its end
RunSuggestions ==
  {SuggestionOf(None, RunLines, line_start, fold,
                <<PatchOf(1, 0, 1, first),
                  PatchOf(k, sc, 1, IF same THEN <<LabelLine[k]>> ELSE <<"y">>)>>) :
     line_start \in {4, 97}, fold \in BOOLEAN, k \in 2..(MaxRun + 2),
     first \in {<<"x">>, <<"a">>}, sc \in 0..1, same \in BOOLEAN}

RunInputs ==
  {[groups |-> <<GroupOf(Some(TitleOf(ERROR, None, <<"t">>)), <<s>>)>>,
    rd |-> RendererWith(DEFAULT_TERM_WIDTH, theme, FALSE, FALSE)] :
     s \in RunSuggestions, theme \in Themes}

InitRun == InitReport(RunInputs)

SpecRun == InitRun /\ [][NextFull]_vars

(***************************************************************************)
(* Suggestions with two or three patches in one line, in order and apart   *)
(***************************************************************************)
OffsetLine == <<"W", "b", "c", "d", "e", "f", "g">>

\* what a patch puts in place: nothing, one letter, three letters, or a
\* letter after a blank
OffsetTexts == {<<>>, <<"x">>, <<"x", "y", "z">>, <<" ", "m">>}

\* the first patch covers n1 characters from s1, the second n2 characters
\* gap characters further on; a third one adds text at the end of the line
OffsetPatches ==
  {<<PatchOf(1, s1, s1 + n1, t1), PatchOf(1, s1 + n1 + gap, s1 + n1 + gap + n2, t2)>>
     \o third :
     s1 \in 0..1, n1 \in {0, 1, 3}, gap \in 0..1, n2 \in 0..2,
     t1 \in OffsetTexts, t2 \in OffsetTexts,
     third \in {<<>>, <<PatchOf(1, 7, 7, <<"?">>)>>}}

\* the patches as given or in reverse
OffsetInputs ==
  {[groups |-> <<GroupOf(Some(TitleOf(ERROR, None, <<"t">>)),
                         <<SuggestionOf(None, <<OffsetLine>>, 4, TRUE,
                                        IF reversed THEN Reverse(ps) ELSE ps)>>)>>,
    rd |-> RendererWith(DEFAULT_TERM_WIDTH, "Ascii", FALSE, FALSE)] :
     ps \in OffsetPatches, reversed \in BOOLEAN}

InitOffsets == InitReport(OffsetInputs)

SpecOffsets == InitOffsets /\ [][NextFull]_vars

(***************************************************************************)
(* Groups of excerpts and Origins of the same path and of another one      *)
(***************************************************************************)
\* excerpts with a Primary annotation under the path p and under q, Origins
\* of p marked primary or not, an Origin of q marked primary, a Padding
PrimaryKinds ==
  {ReportCause(4, Some(<<"p">>), TRUE),
   ReportCause(4, Some(<<"q">>), TRUE),
   OriginOf(<<"p">>, Some(3), Some(2), TRUE),
   OriginOf(<<"p">>, Some(3), Some(2), FALSE),
   OriginOf(<<"q">>, Some(3), Some(2), TRUE),
   PaddingOf}

PrimaryLists == UNION {[1..n -> PrimaryKinds] : n \in 1..MaxElements}

\* a group alone or followed by a group of one excerpt or one Origin
PrimaryInputs ==
  {[groups |-> <<GroupOf(Some(TitleOf(ERROR, None, <<"t">>)), es)>> \o later,
    rd |-> RendererWith(DEFAULT_TERM_WIDTH, "Ascii", FALSE, FALSE)] :
     es \in PrimaryLists,
     later \in {<<>>,
                <<GroupOf(Some(TitleOf(NOTE, None, <<"h">>)),
                          <<ReportCause(4, Some(<<"p">>), TRUE)>>)>>,
                <<GroupOf(Some(TitleOf(NOTE, None, <<"h">>)),
                          <<OriginOf(<<"p">>, Some(3), Some(2), TRUE)>>)>>}}

InitPrimary == InitReport(PrimaryInputs)

SpecPrimary == InitPrimary /\ [][NextFull]_vars

(***************************************************************************)
(* Excerpts and suggestions whose line numbers pass from one digit to two  *)
(* and from two to three                                                   *)
(***************************************************************************)
GutterLines == [k \in 1..5 |-> <<LabelLine[k], LabelLine[k + 5]>>]

\* one annotated line, two annotated lines with a line between them, or a
\* span over several lines
GutterMarkers ==
  {<<Labelled(k, 0, 1, TRUE, <<"x">>)>> : k \in {1, 3, 5}}
    \cup {<<Labelled(1, 0, 1, TRUE, <<"x">>), Labelled(3, 0, 1, FALSE, <<"y">>)>>}
    \cup {<<Marker(se[1], 1, se[2], 1, TRUE, -1, 1, {})>> : se \in {<<1, 3>>, <<2, 5>>, <<3, 4>>}}

\* a patch puts one, two or three lines in place of the first letter of a
\* line
GutterTexts == {<<"x">>, <<"x", "LF", "y">>, <<"x", "LF", "y", "LF", "z">>}

GutterElements ==
  {CauseOf(Some(<<"p">>), GutterLines, line_start, fold, ms) :
     line_start \in {6, 8, 96}, fold \in BOOLEAN, ms \in GutterMarkers}
    \cup {SuggestionOf(None, SubSeq(GutterLines, 1, 3), line_start, fold,
                       <<PatchOf(k, 0, 1, text)>>) :
            line_start \in {7, 9, 97}, fold \in BOOLEAN, k \in 1..3, text \in GutterTexts}

GutterInputs ==
  {[groups |-> <<GroupOf(Some(TitleOf(ERROR, None, <<"t">>)), <<e>>)>>,
    rd |-> RendererWith(DEFAULT_TERM_WIDTH, "Ascii", FALSE, FALSE)] : e \in GutterElements}

InitGutter == InitReport(GutterInputs)

SpecGutter == InitGutter /\ [][NextFull]_vars

(***************************************************************************)
(* The width of the gutter on a target of pointer width 16: the excerpt    *)
(* is one line under every line number of the machine word                 *)
(***************************************************************************)
WordInputs ==
  {[sn |-> SnippetOf(<<CallLine>>, num, FALSE, <<>>),
    rd |-> RendererOf(DEFAULT_TERM_WIDTH, "Ascii", FALSE)] : num \in 0..USIZE_MAX_16}

InitWord == InitOf(WordInputs)

\* render, the first statement: max_line_num_len =
\* num_decimal_digits(max_line_number(groups)); layout keeps the result with
\* the limits compared
SizeGutter ==
  /\ pc = "start"
  /\ ~rd.anonymized_line_numbers
  /\ layout' = <<num_decimal_digits_16(max_line_number(sn))>>
  /\ pc' = "sized"
  /\ UNCHANGED <<sn, rd, annotated_line_idx, buffer, multilines, again, flipped, fault,
                 groups, g, out_string>>

SpecWord == InitWord /\ [][SizeGutter]_vars

(***************************************************************************)
(* What the claims read off a state                                        *)
(***************************************************************************)
\* the cell at a row and a column of the canvas, both from 0
Cell(buf, row, col) ==
  IF row < Len(buf) /\ col < Len(buf[row + 1]) THEN buf[row + 1][col + 1] ELSE SPACE

\* the depths of a list of open spans
DepthsOf(open) == {open[i][1] : i \in 1..Len(open)}

\* the multi-line markers of the excerpt
Spans == {sn.markers[i] : i \in {k \in 1..Len(sn.markers) : is_multiline(sn.markers[k])}}

\* index, among the annotated lines al, of line l of the excerpt; 0 if the
\* line is not annotated
LineAt(al, l) ==
  MaxOf({k \in 1..Len(al) : al[k].line_index = sn.line_start + l - 1}, 0)

\* the vertical slot a rendered line gave to the start or end of depth d
SlotOf(k, type, d) ==
  LET ps == layout[k].positions
      i == CHOOSE j \in 1..Len(ps) : ps[j].ann.annotation_type = type /\ ps[j].ann.depth = d
  IN ps[i].pos

\* canvas rows of the start glyph and of the end glyph of a span
StartRow(k, d) ==
  IF layout[k].short THEN layout[k].row ELSE layout[k].row + SlotOf(k, "MultilineStart", d) + 1
EndRow(k, d) == layout[k].row + SlotOf(k, "MultilineEnd", d) + 1

\* the vertical bracket glyph of a span
VerticalOf(m) ==
  multiline_line_chr(rd.theme, IF m.primary THEN "UnderlinePrimary" ELSE "UnderlineSecondary")

(***************************************************************************)
(* C1                                                                      *)
(***************************************************************************)
\* C1: two calls of render on the same input with the same configuration
\* draw the same canvas, whatever order the hash map of the depths opened
\* on a line yields them in.
C1_Deterministic == buffer = again.buffer

\* a line opened two spans, the hash map yielded the deeper one first, and
\* later lines were drawn with the open list in that order
C1_TwoOpenedAtOnce ==
  /\ pc = "done"
  /\ buffer = again.buffer
  /\ \E k \in 1..(Len(layout) - 1) :
       /\ layout[k].open_before = <<>>
       /\ Len(layout[k].open) = 2
       /\ layout[k].open[1][1] > layout[k].open[2][1]

(***************************************************************************)
(* C2                                                                      *)
(***************************************************************************)
\* the depths whose MultilineStart is on one of the first k annotated lines
\* and is not followed, up to line k, by a line with the MultilineEnd
StartedNotEnded(al, k) ==
  {d \in 1..MaxSpans :
     \E i \in 1..k :
       /\ \E a \in 1..Len(al[i].annotations) :
            /\ al[i].annotations[a].annotation_type = "MultilineStart"
            /\ al[i].annotations[a].depth = d
       /\ ~\E j \in (i + 1)..k : \E a \in 1..Len(al[j].annotations) :
            /\ al[j].annotations[a].annotation_type = "MultilineEnd"
            /\ al[j].annotations[a].depth = d}

\* C2: after each annotated line the open spans are those whose start was
\* rendered and whose end was not yet; none is open after the last line.
C2_OpenIffStartedNotEnded ==
  /\ \A al \in {annotated_lines(sn)} :
       pc # "start" =>
         DepthsOf(multilines) = StartedNotEnded(al, annotated_line_idx - 1)
  /\ pc = "done" => multilines = <<>>

\* two spans were open, one of them was closed while the other stayed open,
\* and all are closed at the end
C2_ClosedOneByOne ==
  /\ pc = "done"
  /\ multilines = <<>>
  /\ \E k \in 1..Len(layout) :
       /\ Len(layout[k].open_before) = 2
       /\ Len(layout[k].open) = 1

(***************************************************************************)
(* C3                                                                      *)
(***************************************************************************)
\* C3: the open list never holds a depth twice, and the gutter column of
\* every open span lies in [width_offset, code_offset).
C3_OneEntryPerDepth ==
  /\ \A i, j \in 1..Len(multilines) : i # j => multilines[i][1] # multilines[j][1]
  /\ \A i \in 1..Len(multilines) :
       /\ multiline_col(width_offset(rd, sn), multilines[i][1]) >= width_offset(rd, sn)
       /\ multiline_col(width_offset(rd, sn), multilines[i][1]) < code_offset(rd, sn)

\* two spans are open at the same time
C3_TwoOpen ==
  /\ pc = "lines"
  /\ Len(multilines) = 2
  /\ multilines[1][1] # multilines[2][1]

(***************************************************************************)
(* C4                                                                      *)
(***************************************************************************)
\* the rows strictly between the start glyph and the end glyph of span m
\* hold its vertical at its gutter column
Continuous(al, m) ==
  LET ks == LineAt(al, m.sl)
      ke == LineAt(al, m.el)
  IN ke \in 1..Len(layout) =>
       \A r \in (StartRow(ks, m.depth) + 1)..(EndRow(ke, m.depth) - 1) :
         Cell(buffer, r, multiline_col(width_offset(rd, sn), m.depth)).ch = VerticalOf(m)

\* C4: the vertical of every multi-line span runs without a gap from the
\* row of its start glyph to the row of its end glyph.
C4_ContinuousBracket ==
  \A al \in {annotated_lines(sn)} : \A m \in Spans : Continuous(al, m)

\* a span whose vertical crosses the label rows of an annotated line and a
\* bridged unannotated line
C4_CrossesLabelsAndBridge ==
  /\ pc = "done"
  /\ \E al \in {annotated_lines(sn)} : \E m \in Spans :
       /\ Continuous(al, m)
       /\ \E k \in (LineAt(al, m.sl) + 1)..(LineAt(al, m.el) - 1) : layout[k].line_len > 0
       /\ \E k \in LineAt(al, m.sl)..(LineAt(al, m.el) - 1) : layout[k].bridge = "line"

(***************************************************************************)
(* C5                                                                      *)
(***************************************************************************)
\* the row after annotated line k holds line number and text of the one
\* source line skipped
PrintedInFull(al, k) ==
  LET row == buffer[layout[k].bridge_row + 1]
      number == maybe_anonymized(rd.anonymized_line_numbers, al[k].line_index + 1,
                                 max_line_num_len(rd, sn))
      text == normalize_whitespace(get_line(sn, al[k].line_index + 1))
  IN /\ \A c \in 1..Len(number) : row[c].ch = number[c]
     /\ Len(row) = code_offset(rd, sn) + Len(text)
     /\ \A c \in 1..Len(text) : row[code_offset(rd, sn) + c].ch = text[c]

\* the row after annotated line k is a separator row: the separator glyph,
\* no line number and no source text
SeparatorRow(k) ==
  LET row == buffer[layout[k].bridge_row + 1]
  IN /\ IF rd.theme = "Ascii"
        THEN row[1].ch = "." /\ row[2].ch = "." /\ row[3].ch = "."
        ELSE row[width_offset(rd, sn) - 1].ch = "U+2021"
     /\ \A c \in 1..Len(row) : row[c].st # "Quotation"
     /\ \A c \in 1..Len(row) : row[c].ch \notin {"0", "1", "2", "3", "4", "5", "6", "7", "8", "9", "L"}

\* every span open after annotated line k has its vertical on the row
\* inserted after that line
VerticalsBridged(k) ==
  \A i \in 1..Len(layout[k].open) :
    Cell(buffer, layout[k].bridge_row,
         multiline_col(width_offset(rd, sn), layout[k].open[i][1])).ch
      = multiline_line_chr(rd.theme, layout[k].open[i][2])

Bridged(al, k) ==
  LET delta == al[k + 1].line_index - al[k].line_index
  IN /\ delta = 1 => layout[k].rows = layout[k].bridge_row
     /\ delta = 2 => /\ layout[k].rows = layout[k].bridge_row + 1
                     /\ PrintedInFull(al, k)
                     /\ VerticalsBridged(k)
     /\ delta > 2 => /\ layout[k].rows = layout[k].bridge_row + 1
                     /\ SeparatorRow(k)
                     /\ VerticalsBridged(k)

\* C5: between two consecutive annotated lines, one skipped line is printed
\* in full, several skipped lines give one separator row, no skipped line
\* gives nothing; the verticals of the open spans, those opened on the
\* current line included, are drawn on the inserted row.
C5_Bridging ==
  \A al \in {annotated_lines(sn)} :
    \A k \in 1..Len(layout) : k < Len(al) => Bridged(al, k)

\* a separator row crossed by the vertical of a span opened on the line
\* before it
C5_SeparatorWithOpenedSpan ==
  /\ pc = "done"
  /\ \E al \in {annotated_lines(sn)} : \E k \in 1..(Len(layout) - 1) :
       /\ al[k + 1].line_index - al[k].line_index > 2
       /\ layout[k].bridge = "separator"
       /\ DepthsOf(layout[k].open) \ DepthsOf(layout[k].open_before) # {}
       /\ Bridged(al, k)

(***************************************************************************)
(* C6                                                                      *)
(***************************************************************************)
\* the glyphs of an underline run
UnderlineGlyphs ==
  {underline(rd.theme, pr).underline : pr \in BOOLEAN}
    \cup {underline(rd.theme, pr).label_start : pr \in BOOLEAN}

\* the single-line annotations of rendered line k the wide-span rule left alone
Underlined(k) ==
  {i \in 1..Len(layout[k].positions) :
     /\ layout[k].positions[i].ann.annotation_type = "Singleline"
     /\ ~(i \notin layout[k].overlap
          /\ is_long_span(layout[k].positions[i].ann, snippet_margin(rd, sn)))}

\* the characters of source line k that draw_line wrote on the code row and
\* that are still there, as indexes from 1 into the line
WrittenChars(al, k) ==
  LET w == layout[k].written
  IN {i \in (w.skipped + 1)..(w.skipped + w.code_chars) :
        /\ Cell(buffer, layout[k].row, w.code_col + i - w.skipped - 1).ch
             = normalize_whitespace(al[k].line)[i]
        /\ Cell(buffer, layout[k].row, w.code_col + i - w.skipped - 1).st # "LineNumber"}

\* every character of the span that is on the code row starts at the display
\* column code_offset + (its display column in the line) - left, and the row
\* below holds one underline glyph for each display column it covers
AlignedAt(al, k, ann) ==
  LET src == normalize_whitespace(al[k].line)
      w == layout[k].written
      co == code_offset(rd, sn)
  IN \A i \in WrittenChars(al, k) :
       LET d == str_width(Take(src, i - 1))
           cell == w.code_col + i - w.skipped - 1
       IN (ann.start_display <= d /\ d < ann.end_display) =>
            /\ display_col(buffer[layout[k].row + 1], cell) = co + d - layout[k].left
            /\ \A p \in d..(d + char_width(src[i]) - 1) :
                 /\ p < ann.end_display
                 /\ Cell(buffer, layout[k].row + 1, co + p - layout[k].left).ch
                      \in UnderlineGlyphs

\* C6: under every character of a single-line annotation that is on the code
\* row, the next row holds one underline glyph per display column of the
\* character, at the display columns the character occupies; so when the
\* line is left-trimmed and when the span holds wide characters.
C6_UnderlineUnderSpan ==
  \A al \in {annotated_lines(sn)} :
    \A k \in 1..Len(layout) : \A i \in Underlined(k) :
      AlignedAt(al, k, layout[k].positions[i].ann)

(***************************************************************************)
(* C7                                                                      *)
(***************************************************************************)
\* every marker of the excerpt is on one line
AllSingleLine == \A i \in 1..Len(sn.markers) : ~is_multiline(sn.markers[i])

\* no annotation drawn so far falls under the wide-span rule
NoLongSpan ==
  \A k \in 1..Len(layout) : \A i \in 1..Len(layout[k].positions) :
    ~is_long_span(layout[k].positions[i].ann, snippet_margin(rd, sn))

\* the display width the margin keeps of a source line: the available width,
\* or the extent of the annotated columns where that is wider
KeptWidth(margin) == Max2(margin.term_width, margin.computed_right - margin.computed_left)

Truncated(k) ==
  {i \in 1..Len(layout[k].positions) :
     /\ i \notin layout[k].overlap
     /\ is_long_span(layout[k].positions[i].ann, snippet_margin(rd, sn))}

\* the cells [col, col + Len(text)) of a row hold the text
HoldsAt(row, col, text) ==
  \A j \in 1..Len(text) : Cell(buffer, row, col + j - 1).ch = text[j]

\* the row holds, from the canvas column of the start of the span on, the
\* first pad cells of the run, the ellipsis, and the last pad cells of the run
TruncatedInMiddle(row, col, run, pad) ==
  /\ HoldsAt(row, col, Take(run, pad))
  /\ HoldsAt(row, col + pad, margin_placeholder(rd.theme))
  /\ HoldsAt(row, col + pad + Len(margin_placeholder(rd.theme)), Drop(run, Len(run) - pad))

\* C8: a span under the wide-span rule has a non-empty replaced range, and
\* code row and underline row each keep pad columns of the span at each end
\* with the ellipsis between them, so that on the underline row the
\* replaced range lies inside the underline of the span.
C8_TruncatedInMiddle ==
  \A al \in {annotated_lines(sn)} : \A k \in 1..Len(layout) : \A i \in Truncated(k) :
    LET ann == layout[k].positions[i].ann
        pad == long_span_pad(snippet_margin(rd, sn))
        col == code_col(code_offset(rd, sn), ann.start_display, layout[k].left)
        src == normalize_whitespace(al[k].line)
    IN /\ ann.start_display + pad < ann.end_display - pad
       /\ TruncatedInMiddle(layout[k].row, col,
                            SubSeq(src, ann.start_char + 1, ann.end_char), pad)
       /\ TruncatedInMiddle(layout[k].row + 1, col,
                            Rep(underline(rd.theme, is_primary(ann)).underline,
                                ann.end_display - ann.start_display), pad)
       /\ col <= trim_start(ann, pad, code_offset(rd, sn), layout[k].left)
       /\ trim_end(ann, pad, code_offset(rd, sn), layout[k].left)
            <= code_col(code_offset(rd, sn), ann.end_display, layout[k].left)

Anonymized ==
  IF rd.anonymized_line_numbers THEN [buffer |-> buffer, rd |-> rd]
  ELSE [buffer |-> flipped.buffer, rd |-> flip(rd)]
Literal ==
  IF rd.anonymized_line_numbers THEN [buffer |-> flipped.buffer, rd |-> flip(rd)]
  ELSE [buffer |-> buffer, rd |-> rd]

Digits == {"0", "1", "2", "3", "4", "5", "6", "7", "8", "9"}

\* the canvas rows that carry a line number: the code rows of the annotated
\* lines and the unannotated lines printed between two of them
NumberRows ==
  {layout[k].row : k \in 1..Len(layout)}
    \cup {layout[k].bridge_row : k \in {j \in 1..Len(layout) : layout[j].bridge = "line"}}

\* two canvases differ in nothing but the line number field of the rows that
\* carry a line number
SameButNumbers(a, b, field) ==
  /\ Len(a) = Len(b)
  /\ \A r \in 1..Len(a) :
       /\ Len(a[r]) = Len(b[r])
       /\ \A c \in 1..Len(a[r]) :
            a[r][c] # b[r][c] => (c <= field /\ (r - 1) \in NumberRows)

C11_FailsFast ==
  (pc # "start" /\ (groups = <<>> \/ ~groups[1].title.some))
    => (pc = "panicked" /\ buffer = <<>> /\ out_string = <<>>)

\* a call whose first group has an excerpt with a path and a labelled
\* primary annotation, but no title, has panicked
C11_NoTitleWithExcerpt ==
  /\ pc = "panicked"
  /\ groups # <<>>
  /\ ~groups[1].title.some
  /\ \E i \in 1..Len(groups[1].elements) :
       /\ groups[1].elements[i].path.some
       /\ short_labels(groups[1].elements[i]) # <<>>

(***************************************************************************)
(* C12: what a short message is made of                                    *)
(***************************************************************************)
\* the first Cause of the first group, if any
C12_Causes == SelectSeq(groups[1].elements, is_cause)

\* the labels of the labelled primary annotations of a Cause, in order
C12_Labels(cause) ==
  [i \in 1..Len(SelectSeq(cause.markers,
                          LAMBDA m : m.labelled /\ m.primary /\ ~is_blank(m.label))) |->
     SelectSeq(cause.markers,
               LAMBDA m : m.labelled /\ m.primary /\ ~is_blank(m.label))[i].label] \o <<>>

\* path:line:col and ": ", when the first Cause has a path
C12_Prefix ==
  IF C12_Causes # <<>> /\ C12_Causes[1].path.some
  THEN origin_str(primary_origin(C12_Causes[1].path.v, annotated_lines(C12_Causes[1])))
         \o <<":", " ">>
  ELSE <<>>

\* the level and the code of the title, and ": "
C12_Head ==
  IF groups[1].title.v.level.shown THEN title_label(groups[1].title.v) \o <<":", " ">>
  ELSE <<>>

C12_Rows == split_lines(normalize_whitespace(groups[1].title.v.text), <<>>)

C12_AllLabels ==
  IF C12_Causes = <<>> \/ C12_Labels(C12_Causes[1]) = <<>> THEN <<>>
  ELSE <<":", " ">> \o join(C12_Labels(C12_Causes[1]), <<",", " ">>)

C13_Causes(elements) == {i \in 1..Len(elements) : is_cause(elements[i])}

\* the first excerpt that holds a Primary annotation, else the first excerpt
C13_FirstPrimary(elements) ==
  IF \E i \in C13_Causes(elements) : has_primary(elements[i])
  THEN MinOf({i \in C13_Causes(elements) : has_primary(elements[i])}, 0)
  ELSE MinOf(C13_Causes(elements), 0)

\* C13 as stated: in every rendered group made of excerpts, the one excerpt
\* rendered as primary is the first that holds a Primary annotation, or the
\* first excerpt when none holds one, whatever the paths of the excerpts
C13_PrimaryIsFirstWithPrimary ==
  \A k \in 1..Len(layout) :
    (C13_Causes(groups[k].elements) # {}
       /\ \A i \in 1..Len(groups[k].elements) : groups[k].elements[i].element # "Origin")
      => layout[k].primary_at = <<C13_FirstPrimary(groups[k].elements)>>

(***************************************************************************)
(* C14: the texts of the groups in the output                              *)
(***************************************************************************)
\* the texts of the groups rendered so far
C14_Texts == [k \in 1..Len(layout) |-> layout[k].text] \o <<>>

\* C14: in full mode the output of a report of n groups is the texts of its
\* groups joined by single line breaks: each group after the first starts on
\* the line after the last row of the group before it, n - 1 line breaks
\* are written between groups, none follows the last group, and the empty
\* list of groups renders to the empty string
C14_GroupsJoinedByLineBreak ==
  /\ pc \in {"start", "groups", "done"}
  /\ pc = "done" =>
       /\ Len(layout) = Len(groups)
       /\ out_string = join(C14_Texts, <<"LF">>)
       /\ groups = <<>> => out_string = <<>>
  /\ \A k \in 1..Len(layout) :
       /\ SubSeq(out_string, layout[k].from + 1, layout[k].from + Len(layout[k].text))
            = layout[k].text
       /\ k > 1 => layout[k].from = layout[k - 1].from + Len(layout[k - 1].text) + 1

\* a report of three groups was rendered
C14_ThreeGroups ==
  /\ pc = "done"
  /\ Len(groups) = 3
  /\ \A k \in 1..3 : layout[k].text # <<>>

\* C14 as stated: a blank line lies between the texts of two groups
C14_BlankLineBetween ==
  pc = "done" => out_string = join(C14_Texts, <<"LF", "LF">>)

(***************************************************************************)
(* C15: the display mode of a replacement block                            *)
(***************************************************************************)
\* the blocks drawn so far, each with the suggestion it belongs to
C15_Blocks == UNION {{layout[k].blocks[j] : j \in 1..Len(layout[k].blocks)} :
                       k \in 1..Len(layout)}

C15_SingleLine(b) == Len(str_lines(b.complete)) <= 1

\* some patch of the block is a pure deletion or a destructive replacement
C15_Removes(b) ==
  \E k \in 1..Len(b.parts) :
    is_deletion(b.src, b.parts[k]) \/ is_destructive_replacement(b.src, b.parts[k])

\* the block is one patch that is the whole resulting text, up to
\* whitespace around them
C15_WholeResult(b) ==
  Len(b.parts) = 1 /\ str_trim(b.parts[1].replacement) = str_trim(b.complete)

C15_AddsLine(b) ==
  C15_WholeResult(b) /\ b.parts[1].replacement # <<>>
    /\ b.parts[1].replacement[Len(b.parts[1].replacement)] = "LF"

\* C15: a block is shown as Diff exactly when a patch of it removes text
\* and the result is a single line; otherwise as Add exactly when it is one
\* patch that ends with a line break and is the whole result; otherwise as
\* Underline exactly when the result is a single line and the block is not
\* one patch that is the whole result; otherwise as None.  A result of
\* more than one line is never shown as Diff or Underline.
C15_DisplayMode ==
  \A b \in C15_Blocks :
    /\ (b.mode = "Diff") = (C15_Removes(b) /\ C15_SingleLine(b))
    /\ b.mode # "Diff" => (b.mode = "Add") = C15_AddsLine(b)
    /\ b.mode \notin {"Diff", "Add"}
         => (b.mode = "Underline") = (C15_SingleLine(b) /\ ~C15_WholeResult(b))
    /\ b.mode \in {"Diff", "Add", "Underline", "None"}
    /\ ~C15_SingleLine(b) => b.mode \notin {"Diff", "Underline"}

\* a report was drawn with a block shown as Underline and a block whose
\* result has two lines and removes text, shown as None
C15_TwoLinesShownAsNone ==
  /\ pc = "done"
  /\ \E b \in C15_Blocks : b.mode = "Underline" /\ C15_SingleLine(b) /\ ~C15_Removes(b)
  /\ \E b \in C15_Blocks : b.mode = "None" /\ ~C15_SingleLine(b) /\ C15_Removes(b)

(***************************************************************************)
(* C16: the markers of a line that is replaced by itself with text         *)
(* inserted                                                                *)
(***************************************************************************)
\* the blocks of the groups drawn so far: group k, block j
C16_Drawn == {kj \in (1..Len(layout)) \X (1..2) : kj[2] <= Len(layout[kj[1]].blocks)}

C16_Block(kj) == layout[kj[1]].blocks[kj[2]]

\* the suggestion has one patch, over a whole line, and the replacement is
\* that line with text inserted
C16_LineWithInsertion(b) ==
  /\ Len(b.src.markers) = 1
  /\ b.src.markers[1].sc = 0
  /\ b.src.markers[1].ec = Len(b.src.lines[b.src.markers[1].line])
  /\ Len(b.src.markers[1].replacement) > Len(b.src.lines[b.src.markers[1].line])
  /\ as_substr(b.src.lines[b.src.markers[1].line], b.src.markers[1].replacement).some
  /\ "LF" \notin {b.src.markers[1].replacement[i] : i \in 1..Len(b.src.markers[1].replacement)}

C16_Padding == report_line_num_len(rd, groups) + 3

\* the display columns of the code, counted from its first column, at
\* which the row of the markers of a block holds a marker
C16_Marked(kj) ==
  {c \in 0..12 :
     /\ C16_Block(kj).marker_row < Len(layout[kj[1]].canvas)
     /\ C16_Padding + c < Len(layout[kj[1]].canvas[C16_Block(kj).marker_row + 1])
     /\ layout[kj[1]].canvas[C16_Block(kj).marker_row + 1][C16_Padding + c + 1]
          \in {StyledChar("+", "Addition"), StyledChar(diff(rd.theme), "Addition")}}

\* the row above the markers holds the new line
C16_BelowNewLine(kj) ==
  /\ C16_Block(kj).marker_row >= 1
  /\ Drop(row_text(layout[kj[1]].canvas[C16_Block(kj).marker_row]), C16_Padding)
       = normalize_whitespace(C16_Block(kj).complete)

\* the display columns of a part of the new line: the characters from..to
C16_Columns(line, from, to) ==
  {c \in 0..12 : str_width(Take(line, from)) <= c /\ c < str_width(Take(line, to))}

\* the inserted text without the whitespace at its ends, unless it is
\* nothing but whitespace
C16_Lead(text) == IF is_blank(text) THEN 0 ELSE Len(text) - Len(str_trim_start(text))

C16_Trail(text) == IF is_blank(text) THEN 0 ELSE Len(text) - Len(str_trim_end(text))

C16_Inserted(b) == b.parts[1].replacement

C17_Title == groups[1].title.v

C17_HasCode == C17_Title.id.some /\ C17_Title.id.v.id.some

C17_HasCodeAndUrl == C17_HasCode /\ C17_Title.id.v.url.some

C17_Row == IF buffer = <<>> THEN <<>> ELSE row_text(buffer[1])

\* the cells of the first row that hold the start of an escape, and those
\* that hold its end
C17_EscapeStarts == {i \in 1..Len(C17_Row) : C17_Row[i] = "ESC]8;;"}

C17_EscapeEnds == {i \in 1..Len(C17_Row) : C17_Row[i] = "ESC\\"}

\* the row holds, from cell i on, the text
C17_HoldsAt(i, text) ==
  i + Len(text) - 1 <= Len(C17_Row) /\ SubSeq(C17_Row, i, i + Len(text) - 1) = text

\* '[', the opening escape with the URL, the code, the closing escape, ']'
C17_Link ==
  <<"[", "ESC]8;;">> \o C17_Title.id.v.url.v \o <<"ESC\\">> \o C17_Title.id.v.id.v
    \o <<"ESC]8;;", "ESC\\", "]">>

\* the width of the label as it is seen: the level, the code between
\* brackets, ": "
C17_SeenWidth ==
  IF ~C17_Title.level.shown THEN 0
  ELSE Len(C17_Title.level.name) + (IF C17_HasCode THEN Len(C17_Title.id.v.id.v) + 2 ELSE 0) + 2

\* C17: the escapes of a hyperlink are in a title only when its identifier
\* has a code and a URL; then there is one opening and one closing escape,
\* they enclose the code and nothing else between '[' and ']', and the rows
\* of the title text after the first are indented by the width of the
\* label without the escapes.
C17_EscapesAroundCode ==
  pc = "done" /\ groups[1].elements = <<>> =>
    /\ C17_EscapeStarts \cup C17_EscapeEnds # {} => C17_HasCodeAndUrl
    /\ C17_HasCodeAndUrl /\ C17_Title.level.shown
         => /\ C17_HoldsAt(Len(C17_Title.level.name) + 1, C17_Link)
            /\ Cardinality(C17_EscapeStarts) = 2
            /\ Cardinality(C17_EscapeEnds) = 2
    /\ Cardinality(C17_EscapeStarts) = Cardinality(C17_EscapeEnds)
    /\ Len(buffer) <= Len(split_lines(C17_Title.text, <<>>))
    /\ \A i \in 2..Len(buffer) :
         row_text(buffer[i]) = Rep(" ", C17_SeenWidth) \o split_lines(C17_Title.text, <<>>)[i]

\* a title with a code, a URL and a text of two lines was drawn
C17_LinkAndTwoRows ==
  /\ pc = "done"
  /\ groups[1].elements = <<>>
  /\ C17_HasCodeAndUrl /\ C17_Title.level.shown
  /\ C17_EscapeStarts # {}
  /\ Len(buffer) = 2

(***************************************************************************)
(* C18: the table of replacements is ordered, no tab is left               *)
(***************************************************************************)
C18_Chars(s) == {s[i] : i \in 1..Len(s)}

\* the text draw_line is called with for line l of the excerpt
C18_Drawn(l) == normalize_whitespace(sn.lines[l])

\* C18: the keys of OUTPUT_REPLACEMENTS are strictly ascending, the binary
\* search finds every key at its place, the output of normalize_whitespace
\* holds no tab, and so neither the text draw_line is called with nor a
\* cell of the canvas holds one.
C18_SortedAndNoTab ==
  /\ \A i \in 1..(Len(OUTPUT_REPLACEMENTS) - 1) :
       OUTPUT_REPLACEMENTS[i].key < OUTPUT_REPLACEMENTS[i + 1].key
  /\ \A i \in 1..Len(OUTPUT_REPLACEMENTS) :
       binary_search_by_key(OUTPUT_REPLACEMENTS, OUTPUT_REPLACEMENTS[i].key)
         = [found |-> TRUE, index |-> i - 1]
  /\ \A l \in 1..Len(sn.lines) : "TAB" \notin C18_Chars(C18_Drawn(l))
  /\ \A row \in 1..Len(buffer) : "TAB" \notin C18_Chars(row_text(buffer[row]))

\* a line with a tab and an escape character was drawn: the code row holds
\* four spaces and the picture of the escape character
C18_TabAndEscapeDrawn ==
  /\ pc = "done"
  /\ Take(sn.lines[1], 2) = <<"TAB", "U+001B">>
  /\ \E row \in 1..Len(buffer) :
       \E c \in 1..Len(buffer[row]) :
         /\ c + 4 <= Len(buffer[row])
         /\ SubSeq(row_text(buffer[row]), c, c + 4) = <<" ", " ", " ", " ", "U+241B">>

(***************************************************************************)
(* C19: the widths of the characters and of what is printed for them       *)
(***************************************************************************)
\* the character of a code point
C19_Char(key) == CHOOSE ch \in DOMAIN CODE_POINTS : CODE_POINTS[ch] = key

\* the code row of the excerpt and the display column its code starts at
C19_Row == buffer[layout[1].row + 1]

\* the cells of a row that start at a display column
C19_CellsAt(row, col) == {c \in 1..Len(row) : display_col(row, c - 1) = col}

\* C19: a tab is 4 columns wide and every control or text-flow character
\* char_width lists is 1 column wide, whatever the generic table says; for
\* every key of OUTPUT_REPLACEMENTS what is printed for it is as wide as
\* char_width says the key is; so a column counted on the line as it was
\* given is the column on the line as it is drawn: the annotated text is
\* drawn at the display column of its annotation.
C19_WidthsAgree ==
  /\ char_width("TAB") = 4
  /\ \A ch \in DOMAIN CODE_POINTS : CODE_POINTS[ch] \in WIDTH_ONE => char_width(ch) = 1
  /\ \E ch \in DOMAIN CODE_POINTS : CODE_POINTS[ch] \in WIDTH_ONE /\ unicode_width(ch) # 1
  /\ \A i \in 1..Len(OUTPUT_REPLACEMENTS) :
       str_width(OUTPUT_REPLACEMENTS[i].to) = char_width(C19_Char(OUTPUT_REPLACEMENTS[i].key))
  /\ \A l \in 1..Len(sn.lines) : \A n \in 0..Len(sn.lines[l]) :
       str_width(Take(sn.lines[l], n)) = str_width(normalize_whitespace(Take(sn.lines[l], n)))
  /\ \A k \in 1..Len(layout) : \A i \in 1..Len(layout[k].positions) :
       /\ layout[k].positions[i].ann.start_display
            = str_width(normalize_whitespace(Take(sn.lines[1], sn.markers[1].sc)))
       /\ \E c \in C19_CellsAt(C19_Row, code_offset(rd, sn)
                                          + layout[k].positions[i].ann.start_display) :
            /\ c + 1 <= Len(C19_Row)
            /\ SubSeq(row_text(C19_Row), c, c + 1) = <<"x", "y">>

\* a line with a tab, a zero width joiner and a text-flow character before
\* the annotated text was drawn
C19_TabJoinerAndFlowDrawn ==
  /\ pc = "done"
  /\ Len(layout) = 1
  /\ Take(sn.lines[1], 3) = <<"TAB", "U+200D", "U+202E">>
  /\ layout[1].positions[1].ann.start_display = 5

(***************************************************************************)
(* C20: the fast path of a line on which spans start                       *)
(***************************************************************************)
\* the annotations of a line that start a span
C20_Starts(line) ==
  {line.annotations[i] : i \in {j \in 1..Len(line.annotations) :
                                  line.annotations[j].annotation_type = "MultilineStart"}}

\* only whitespace is drawn before the start column of the annotation
C20_Indented(line, ann) ==
  \A c \in 1..Len(normalize_whitespace(line.line)) :
    c <= ann.start_display => normalize_whitespace(line.line)[c] = " "

\* every annotation of the line starts a span after whitespace only
C20_AllIndentedStarts(line) ==
  \A i \in 1..Len(line.annotations) :
    /\ line.annotations[i].annotation_type = "MultilineStart"
    /\ C20_Indented(line, line.annotations[i])

\* every annotation of the line starts a span after whitespace only or is
\* the placeholder of an interior line of a span
C20_StartsAndPlaceholders(line) ==
  \A i \in 1..Len(line.annotations) :
    \/ line.annotations[i].annotation_type = "MultilineLine"
    \/ /\ line.annotations[i].annotation_type = "MultilineStart"
       /\ C20_Indented(line, line.annotations[i])

\* the gutter columns of the code row of rendered line k that hold the
\* glyph of a span that starts on the line
C20_Glyphs(k) ==
  {c \in width_offset(rd, sn)..(code_offset(rd, sn) - 1) :
     Cell(buffer, layout[k].row, c).ch
       \in {underline(rd.theme, pr).multiline_whole_line : pr \in BOOLEAN}}

\* one glyph for each span that starts on the line, in its gutter column,
\* no further row for the line, the depths reported as opened
C20_FastPathTaken(line, k) ==
  /\ layout[k].short
  /\ C20_Glyphs(k) = {width_offset(rd, sn) + ann.depth - 1 : ann \in C20_Starts(line)}
  /\ \A ann \in C20_Starts(line) :
       Cell(buffer, layout[k].row, width_offset(rd, sn) + ann.depth - 1)
         = StyledChar(underline(rd.theme, is_primary(ann)).multiline_whole_line,
                      underline(rd.theme, is_primary(ann)).style)
  /\ layout[k].bridge_row = layout[k].row + 1
  /\ {layout[k].depths[i][1] : i \in 1..Len(layout[k].depths)}
       = {ann.depth : ann \in C20_Starts(line)}
  /\ {ann.depth : ann \in C20_Starts(line)} \subseteq DepthsOf(layout[k].open)

\* none of the glyphs, and the rows of the general algorithm
C20_GeneralPathTaken(k) ==
  /\ ~layout[k].short
  /\ C20_Glyphs(k) = {}
  /\ layout[k].bridge_row > layout[k].row + 1

C21_Overlap(x, y) ==
  IF PairLeq(x.start_display, x.start_char, y.start_display, y.start_char)
  THEN overlaps(x, y, Len(x.label) + 2)
  ELSE overlaps(y, x, Len(y.label) + 2)

\* the row of the label of an annotation in vertical slot pos of line k
C21_LabelRow(k, pos) == layout[k].row + (IF pos = 0 THEN 1 ELSE pos + 2)

\* the text of the label of pa is on its row, from canvas column col on
C21_LabelAt(k, pa, col) ==
  \A t \in 1..Len(pa.ann.label) :
    Cell(buffer, C21_LabelRow(k, pa.pos), col + t - 1)
      = StyledChar(pa.ann.label[t], label_style(pa.ann))

\* the text of the label of pa is on its row somewhere
C21_LabelShown(k, pa) ==
  \E col \in 0..Len(buffer[C21_LabelRow(k, pa.pos) + 1]) : C21_LabelAt(k, pa, col)

\* the pairs of annotations of line k that carry a label with text and
\* overlap
C21_Pairs(k) ==
  {ij \in (1..Len(layout[k].positions)) \X (1..Len(layout[k].positions)) :
     /\ ij[1] < ij[2]
     /\ has_label(layout[k].positions[ij[1]].ann)
     /\ has_label(layout[k].positions[ij[2]].ann)
     /\ C21_Overlap(layout[k].positions[ij[1]].ann, layout[k].positions[ij[2]].ann)}

\* C21: on a line drawn by the general path, two annotations that both carry
\* a label with text and whose display ranges overlap, the one later in the
\* sort order padded by the length of its label + 2, have different vertical
\* slots, and both label texts are on the canvas, on different rows; so for
\* three mutually overlapping annotations.
C21_OverlappingLabelsApart ==
  \A k \in 1..Len(layout) : \A ij \in C21_Pairs(k) :
    /\ ~layout[k].short
    /\ layout[k].positions[ij[1]].pos # layout[k].positions[ij[2]].pos
    /\ C21_LabelRow(k, layout[k].positions[ij[1]].pos)
         # C21_LabelRow(k, layout[k].positions[ij[2]].pos)
    /\ C21_LabelShown(k, layout[k].positions[ij[1]])
    /\ C21_LabelShown(k, layout[k].positions[ij[2]])

\* three labelled annotations of one line overlap each other and their
\* labels are on three rows
C21_ThreeLabelsThreeRows ==
  \E k \in 1..Len(layout) :
    /\ Len(layout[k].positions) = 3
    /\ Cardinality(C21_Pairs(k)) = 3
    /\ Cardinality({layout[k].positions[i].pos : i \in 1..3}) = 3

(***************************************************************************)
(* C22: inverted slots                                                     *)
(***************************************************************************)
\* the slots the two loops assign to the annotations of a line
C22_Assigned(line) ==
  assign_positions(SortStable(LAMBDA x, y :
                                PairLess(y.start_display, y.start_char,
                                         x.start_display, x.start_char),
                              line.annotations))

\* the label rows the loops reserve for the line
C22_Reserved(line) ==
  IF C22_Assigned(line).line_len = 0 THEN 0 ELSE C22_Assigned(line).line_len + 1

C22_MaxSlot(line) ==
  MaxOf({C22_Assigned(line).positions[i].pos : i \in 1..Len(line.annotations)}, 0)

\* the slots of the line with every slot p replaced by max slot - p
C22_Inverted(line) ==
  [i \in 1..Len(line.annotations) |->
     [C22_Assigned(line).positions[i] EXCEPT !.pos = C22_MaxSlot(line) - @]] \o <<>>

\* rendered line k has the slots inverted and a label row less
C22_DrawnInverted(line, k) ==
  /\ layout[k].positions = sort_by_len(C22_Inverted(line))
  /\ layout[k].line_len = SatSub(C22_Reserved(line), 1)

\* rendered line k has the slots and the label rows as assigned
C22_DrawnAsAssigned(line, k) ==
  /\ layout[k].positions = sort_by_len(C22_Assigned(line).positions)
  /\ layout[k].line_len = C22_Reserved(line)

\* the lines drawn by the general path
C22_General == {k \in 1..Len(layout) : layout[k].positions # <<>>}

\* C22 as amended: when every annotation placed on a line is the start of a
\* multi-line span (MultilineStart), each slot p is replaced by
\* (max slot - p) and the number of label rows reserved for the line is
\* reduced by one, never below zero; on every other line, a line of ends of
\* spans or of starts and ends included, the slots are left as assigned.
C22_InvertedForStartsOnly ==
  \A al \in {annotated_lines(sn)} : \A k \in C22_General :
    IF \A i \in 1..Len(al[k].annotations) :
         al[k].annotations[i].annotation_type = "MultilineStart"
    THEN C22_DrawnInverted(al[k], k)
    ELSE C22_DrawnAsAssigned(al[k], k)

\* two spans start on one line after text: their slots 0 and 1 were
\* exchanged and one label row is reserved
C22_TwoStartsExchanged ==
  \E al \in {annotated_lines(sn)} : \E k \in C22_General :
    /\ Len(al[k].annotations) = 2
    /\ \A i \in 1..2 : al[k].annotations[i].annotation_type = "MultilineStart"
    /\ C22_Inverted(al[k]) # C22_Assigned(al[k]).positions
    /\ C22_DrawnInverted(al[k], k)
    /\ layout[k].line_len = 1

\* C22 as stated: the slots are inverted when every annotation placed on
\* the line is a bracket marker of a multi-line span, a start or an end
C22_InvertedForBrackets ==
  \A al \in {annotated_lines(sn)} : \A k \in C22_General :
    IF \A i \in 1..Len(al[k].annotations) : takes_space(al[k].annotations[i])
    THEN C22_DrawnInverted(al[k], k)
    ELSE C22_DrawnAsAssigned(al[k], k)

(***************************************************************************)
(* C23: the wide-span rule and overlapping annotations                     *)
(***************************************************************************)
\* the ellipsis of the wide-span rule is on the underline row of line k
C23_Trimmed(k) ==
  \E col \in 0..Len(buffer[layout[k].row + 2]) :
    HoldsAt(layout[k].row + 1, col, margin_placeholder(rd.theme))

\* the over-wide single-line spans of line k
C23_Wide(k) ==
  {i \in 1..Len(layout[k].positions) :
     is_long_span(layout[k].positions[i].ann, snippet_margin(rd, sn))}

\* span i of line k overlaps another annotation of the line
C23_Overlapped(k, i) ==
  \E j \in 1..Len(layout[k].positions) :
    j # i /\ overlaps(layout[k].positions[i].ann, layout[k].positions[j].ann, 0)

\* C23 as stated: on a line with one over-wide single-line span, the middle
\* of the span is replaced by the ellipsis exactly when the span overlaps no
\* other annotation of the line, and the flag consulted for a span is the
\* flag computed for it.
C23_TrimmedUnlessOverlapped ==
  \A k \in 1..Len(layout) : \A i \in C23_Wide(k) :
    /\ C23_Trimmed(k) = ~C23_Overlapped(k, i)
    /\ (i \in layout[k].overlap) = C23_Overlapped(k, i)

(***************************************************************************)
(* C24: the underline that remains in a column                             *)
(***************************************************************************)
\* display column c of the line is covered by the annotation
C24_Covers(a, c) == a.start_display <= c /\ c < a.end_display

\* a is drawn before b: it is longer, or as long and not Primary while b is
C24_Before(a, b) ==
  \/ ann_len(a) > ann_len(b)
  \/ (ann_len(a) = ann_len(b) /\ ~is_primary(a) /\ is_primary(b))

\* the annotations of line k covering column c that have the smallest
\* length and, among those, are Primary if one is
C24_Last(k, c) ==
  {i \in 1..Len(layout[k].positions) :
     /\ C24_Covers(layout[k].positions[i].ann, c)
     /\ \A j \in 1..Len(layout[k].positions) :
          C24_Covers(layout[k].positions[j].ann, c)
            => ~C24_Before(layout[k].positions[i].ann, layout[k].positions[j].ann)}

\* glyph and style the annotation alone writes under column c
C24_Own(r, pa, c) ==
  Cell(draw_underline(<<>>, pa.ann, pa.pos, underline(r.theme, is_primary(pa.ann)), 0, 0, 0),
       0, c)

\* the columns of line k covered by an annotation, on a line the wide-span
\* rule left alone
C24_Columns(k) ==
  IF Truncated(k) # {} THEN {}
  ELSE {c \in 0..Len(LabelLine) :
          /\ code_offset(rd, sn) + c >= layout[k].left
          /\ \E i \in 1..Len(layout[k].positions) :
               C24_Covers(layout[k].positions[i].ann, c)}

\* C24: in every column of the underline row covered by annotations of the
\* line, the glyph and the style are those written by an annotation of the
\* smallest display length among the ones covering the column, and by a
\* Primary one if annotations of that length differ in kind.
C24_ShortestUnderlineRemains ==
  \A k \in 1..Len(layout) : \A c \in C24_Columns(k) :
    \E i \in C24_Last(k, c) :
      Cell(buffer, layout[k].row + 1, code_col(code_offset(rd, sn), c, layout[k].left))
        = C24_Own(rd, layout[k].positions[i], c)

\* a column is covered by a secondary span and by a Primary span of the
\* same length that starts after it, and holds the underline of the
\* Primary one; another column holds the underline of a shorter span
C24_PrimaryOfEqualLength ==
  \E k \in 1..Len(layout) : \E c, d \in C24_Columns(k) :
    \E i, j, m \in 1..Len(layout[k].positions) :
      /\ C24_Covers(layout[k].positions[i].ann, c)
      /\ C24_Covers(layout[k].positions[j].ann, c)
      /\ ann_len(layout[k].positions[i].ann) = ann_len(layout[k].positions[j].ann)
      /\ is_primary(layout[k].positions[i].ann)
      /\ ~is_primary(layout[k].positions[j].ann)
      /\ layout[k].positions[i].ann.start_display > layout[k].positions[j].ann.start_display
      /\ C24_Covers(layout[k].positions[j].ann, d)
      /\ C24_Covers(layout[k].positions[m].ann, d)
      /\ ann_len(layout[k].positions[m].ann) < ann_len(layout[k].positions[j].ann)
      /\ C24_Last(k, d) = {m}
      /\ Cell(buffer, layout[k].row + 1,
              code_col(code_offset(rd, sn), c, layout[k].left)).st = "UnderlinePrimary"

(***************************************************************************)
(* C25: the continuation flag of a Suggestion                              *)
(***************************************************************************)
\* the positions of the Suggestions among the elements of a group
C25_Suggestions(elements) ==
  {i \in 1..Len(elements) : elements[i].element = "Suggestion"}

\* the position in the group of its n-th Suggestion
C25_Position(elements, n) ==
  CHOOSE i \in C25_Suggestions(elements) :
    Cardinality({j \in C25_Suggestions(elements) : j <= i}) = n

\* the element immediately before element i of the group is a Suggestion
C25_AfterSuggestion(elements, i) == i > 1 /\ elements[i - 1].element = "Suggestion"

\* the last element before element i that is no Padding is a Suggestion
C25_AfterSuggestionAndPaddings(elements, i) ==
  \E j \in 1..(i - 1) :
    /\ elements[j].element = "Suggestion"
    /\ \A m \in (j + 1)..(i - 1) : elements[m].element = "Padding"

\* the rows of the canvas after a suggestion emitted with the flag on a
\* canvas of the given number of rows
C25_Rows(gi, src, rows, flag) ==
  num_lines(emit_suggestion_default(
              rd, Rep(<<>>, rows), src, report_line_num_len(rd, groups),
              suggestion_primary_path(group_ctx(groups, gi - 1,
                                                report_line_num_len(rd, groups))),
              flag).buffer)

\* the n-th Suggestion of rendered group gi was emitted with the flag
C25_EmittedWith(gi, n, flag) ==
  /\ layout[gi].is_conts[n].is_cont = flag
  /\ layout[gi].is_conts[n].rows_after
       = C25_Rows(gi, groups[gi].elements[C25_Position(groups[gi].elements, n)],
                  layout[gi].is_conts[n].rows_before, flag)
  /\ layout[gi].is_conts[n].rows_after
       # C25_Rows(gi, groups[gi].elements[C25_Position(groups[gi].elements, n)],
                  layout[gi].is_conts[n].rows_before, ~flag)

\* C25 as stated: the continuation flag passed to the rendering of a
\* Suggestion is true exactly when the element immediately before it in
\* the group is a Suggestion; a Message, Cause, Origin or Padding in
\* between resets it, and it is false for the first element of a group.
C25_ContinuesAfterSuggestion ==
  \A gi \in 1..Len(layout) :
    /\ Len(layout[gi].is_conts) = Cardinality(C25_Suggestions(groups[gi].elements))
    /\ \A n \in 1..Len(layout[gi].is_conts) :
         C25_EmittedWith(gi, n, C25_AfterSuggestion(groups[gi].elements,
                                                    C25_Position(groups[gi].elements, n)))

\* the flag is true exactly when the last element before the Suggestion
\* that is no Padding is a Suggestion of the same group
C25_ContinuesOverPadding ==
  \A gi \in 1..Len(layout) :
    /\ Len(layout[gi].is_conts) = Cardinality(C25_Suggestions(groups[gi].elements))
    /\ \A n \in 1..Len(layout[gi].is_conts) :
         C25_EmittedWith(gi, n,
                         C25_AfterSuggestionAndPaddings(
                           groups[gi].elements, C25_Position(groups[gi].elements, n)))

(***************************************************************************)
(* C26: the lines of a replacement block that have no highlight            *)
(***************************************************************************)
\* the blocks drawn for the groups rendered so far, with their canvas
C26_Blocks ==
  UNION {{[b |-> layout[k].blocks[j], canvas |-> layout[k].canvas] :
            j \in 1..Len(layout[k].blocks)} : k \in 1..Len(layout)}

\* the lines of the result of a block that are paired with highlights
C26_Lines(b) == 1..Min2(Len(str_lines(b.complete)), Len(b.highlights))

C26_Plain(b, i) == i \in C26_Lines(b) /\ b.highlights[i] = <<>>

\* the run of lines without a highlight around line i: its first and its
\* last line
C26_RunFirst(b, i) ==
  CHOOSE lo \in 1..i : (\A m \in lo..i : C26_Plain(b, m)) /\ ~C26_Plain(b, lo - 1)

C26_RunLast(b, i) ==
  CHOOSE hi \in i..Len(b.highlights) :
    (\A m \in i..hi : C26_Plain(b, m)) /\ ~C26_Plain(b, hi + 1)

C26_RunLen(b, i) == C26_RunLast(b, i) - C26_RunFirst(b, i) + 1

\* the rows a line stands for: its own row, unless it lies inside a run of
\* more than three lines; the first line of such a run is followed by the
\* row of the placeholder
C26_RowsOf(b, i) ==
  IF ~C26_Plain(b, i) \/ C26_RunLen(b, i) <= 3 THEN <<i>>
  ELSE IF i = C26_RunFirst(b, i) THEN <<i, 0>>
  ELSE IF i = C26_RunLast(b, i) THEN <<i>>
  ELSE <<>>

\* the rows of the lines up to line n, 0 for a row of the placeholder
C26_RowsUpTo(b, n) ==
  FoldLeft(LAMBDA acc, i : acc \o C26_RowsOf(b, i), <<>>, [i \in 1..n |-> i])

\* the last line of the result that has a highlight
C26_LastHighlighted(b) == MaxOf({i \in C26_Lines(b) : ~C26_Plain(b, i)}, 0)

\* row r of the canvas shows line i of the result under its number, or the
\* placeholder
C26_RowShows(x, r, i) ==
  /\ r >= 0 /\ r < Len(x.canvas)
  /\ IF i = 0
     THEN str_trim(row_text(x.canvas[r + 1])) = margin_placeholder(rd.theme)
     ELSE /\ starts_with(str_trim_start(row_text(x.canvas[r + 1])),
                         to_string(block_line(x.b.src, x.b) + i - 1) \o <<" ">>)
          /\ ends_with(row_text(x.canvas[r + 1]),
                       <<" ">> \o str_lines(x.b.complete)[i])

\* the rows of code of a block are the given rows, and the row above them
\* is the separator that begins the block
C26_Drawn(x, rows) ==
  /\ \A j \in 1..Len(rows) :
       C26_RowShows(x, x.b.marker_row - Len(rows) + j - 1, rows[j])
  /\ x.b.marker_row - Len(rows) - 1 >= 0
  /\ Len(str_trim(row_text(x.canvas[x.b.marker_row - Len(rows)]))) <= 2

\* blocks of several lines shown without a row of markers
C26_Context(x) == x.b.mode = "None" /\ Len(str_lines(x.b.complete)) > 1

\* C26 as stated: in a suggestion block a run of more than 3 consecutive
\* unhighlighted lines is rendered as its first line, one ellipsis row and
\* its last line, a run of 1 to 3 is rendered in full, and every line of
\* the result is either rendered or covered by an ellipsis row, with line
\* numbers increasing down the block.
C26_EveryLineShownOrElided ==
  \A x \in C26_Blocks :
    C26_Context(x) => C26_Drawn(x, C26_RowsUpTo(x.b, Len(str_lines(x.b.complete))))

\* what holds: the lines up to the last highlighted line are rendered so;
\* the lines after it are not rendered and no ellipsis row stands for them
C26_ShownUpToLastHighlight ==
  \A x \in C26_Blocks :
    C26_Context(x) => C26_Drawn(x, C26_RowsUpTo(x.b, C26_LastHighlighted(x.b)))

\* a run of five lines between two highlighted lines
C26_LongRunElided ==
  \E x \in C26_Blocks :
    /\ C26_Context(x)
    /\ C26_LastHighlighted(x.b) = 7
    /\ C26_RowsUpTo(x.b, 7) = <<1, 2, 0, 6, 7>>

\* a run of three lines before the first highlighted line
C26_ShortRunInFull ==
  \E x \in C26_Blocks :
    /\ C26_Context(x)
    /\ x.b.highlights[1] = <<>>
    /\ C26_RowsUpTo(x.b, C26_LastHighlighted(x.b)) = <<1, 2, 3, 4>>

\* the result ends with lines that have no highlight
C26_EndsWithoutHighlight ==
  \E x \in C26_Blocks :
    /\ C26_Context(x)
    /\ C26_LastHighlighted(x.b) = 1
    /\ Len(str_lines(x.b.complete)) = 3

(***************************************************************************)
(* C27: the underline columns of the patches of a block                    *)
(***************************************************************************)
\* the blocks drawn so far whose patches are walked for their columns
C27_Blocks ==
  {b \in UNION {{layout[k].blocks[j] : j \in 1..Len(layout[k].blocks)} :
                  k \in 1..Len(layout)} : b.mode \in {"Diff", "Underline", "Add"}}

\* the display columns where patch k of a block starts and ends
C27_From(b, k) == str_width(SubSeq(b.src.lines[b.parts[k].line], 1, b.parts[k].sc))

C27_To(b, k) == str_width(SubSeq(b.src.lines[b.parts[k].line], 1, b.parts[k].ec))

\* the patches of a block are in order and apart
C27_Ordered(b) ==
  \A k \in 2..Len(b.parts) :
    /\ b.parts[k - 1].line = b.parts[k].line
    /\ b.parts[k - 1].ec <= b.parts[k].sc

\* the leading whitespace of a replacement that is not all whitespace
C27_Skip(text) ==
  IF \A i \in 1..Len(text) : text[i] \in WHITESPACE THEN 0
  ELSE Cardinality({i \in 1..Len(text) : \A m \in 1..i : text[m] \in WHITESPACE})

\* replacement width - replaced width of patch j
C27_Delta(b, j) == str_width(b.parts[j].replacement) - (C27_To(b, j) - C27_From(b, j))

RECURSIVE C27_Sum(_, _, _)
C27_Sum(b, k, j) ==
  IF j >= k THEN 0
  ELSE (IF C27_To(b, j) <= C27_From(b, k) THEN C27_Delta(b, j) ELSE 0) + C27_Sum(b, k, j + 1)

\* C27: for the patches of one replacement block taken in order, the
\* underline start column of a patch is its display start column plus the
\* leading-whitespace skip of its replacement plus the sum of (replacement
\* width - replaced width) over the earlier patches located before it, and
\* for ordered, non-overlapping patches the assertion underline_start >= 0
\* and underline_end >= 0 never fails, also when earlier patches delete more
\* columns than they insert.
C27_UnderlineStartShifted ==
  /\ pc # "panicked"
  /\ \A b \in C27_Blocks :
       /\ Len(b.underlines) = Len(b.parts)
       /\ C27_Ordered(b)
            => \A k \in 1..Len(b.parts) :
                 /\ b.underlines[k].start
                      = C27_From(b, k) + C27_Skip(b.parts[k].replacement) + C27_Sum(b, k, 1)
                 /\ b.underlines[k].start >= 0
                 /\ b.underlines[k].end >= b.underlines[k].start

\* two earlier patches that remove text and put none move the third patch
\* to the left of where it starts, down to column 0
C27_DeletionsBefore ==
  \E b \in C27_Blocks :
    /\ C27_Ordered(b)
    /\ Len(b.parts) = 3
    /\ C27_Delta(b, 1) < 0 /\ C27_Delta(b, 2) < 0
    /\ C27_Skip(b.parts[2].replacement) = 0
    /\ b.underlines[2].start = 0
    /\ b.underlines[3].start < C27_From(b, 3)

(***************************************************************************)
(* C28: the elements of a group rendered as primary                        *)
(***************************************************************************)
\* the rows of the canvas of a rendered group that begin a file with the
\* glyph of the primary file
C28_PrimaryRows(k) ==
  {r \in 1..Len(layout[k].canvas) :
     starts_with(str_trim_start(row_text(layout[k].canvas[r])), file_start(rd.theme))}

\* the rows that begin a file with the glyph of a secondary file
C28_SecondaryRows(k) ==
  {r \in 1..Len(layout[k].canvas) :
     starts_with(str_trim_start(row_text(layout[k].canvas[r])),
                 secondary_file_start(rd.theme))}

C28_Kind(k, kind) ==
  {i \in 1..Len(groups[k].elements) : groups[k].elements[i].element = kind}

\* the Origins of a group that are marked primary
C28_MarkedOrigins(k) == {i \in C28_Kind(k, "Origin") : groups[k].elements[i].primary}

\* C28 as stated: in every group at most one element (Cause or Origin) is
\* rendered as primary: once an element has been treated as primary, every
\* later element of the same group is rendered as secondary even when its
\* path equals the primary path, and the flag starts false again for the
\* next group.
C28_OnePrimaryPerGroup ==
  \A k \in 1..Len(layout) :
    /\ Cardinality(C28_PrimaryRows(k)) <= 1
    /\ Cardinality(C28_PrimaryRows(k)) + Cardinality(C28_SecondaryRows(k))
         = Cardinality(C28_Kind(k, "Cause")) + Cardinality(C28_Kind(k, "Origin"))

\* what holds: at most one Cause of a group is rendered as primary, and
\* every Origin is rendered as its own mark says
C28_OnePrimaryCausePerGroup ==
  \A k \in 1..Len(layout) :
    /\ Len(layout[k].primary_at) <= 1
    /\ Cardinality(C28_PrimaryRows(k))
         = Len(layout[k].primary_at) + Cardinality(C28_MarkedOrigins(k))
    /\ Cardinality(C28_PrimaryRows(k)) + Cardinality(C28_SecondaryRows(k))
         = Cardinality(C28_Kind(k, "Cause")) + Cardinality(C28_Kind(k, "Origin"))

\* a group with three files begun as primary: an excerpt and two Origins,
\* and a second group that begins its file as primary again
C28_ThreePrimaryAndNextGroup ==
  /\ Len(layout) = 2
  /\ Cardinality(C28_PrimaryRows(1)) = 3
  /\ Len(layout[1].primary_at) = 1
  /\ Len(layout[2].primary_at) = 1

(***************************************************************************)
(* C29: the line numbers in the gutter                                     *)
(***************************************************************************)
C29_Digits == {Digit(d) : d \in 0..9}

\* the decimal digits a row of the canvas begins with, after its blanks
RECURSIVE C29_Leading(_)
C29_Leading(text) ==
  IF text # <<>> /\ Head(text) \in C29_Digits THEN 1 + C29_Leading(Tail(text)) ELSE 0

C29_NumberLen(row) == C29_Leading(str_trim_start(row_text(row)))

\* the rows of the canvas of rendered group k that begin with a line number
C29_NumberRows(k) ==
  {r \in 1..Len(layout[k].canvas) : C29_NumberLen(layout[k].canvas[r]) > 0}

\* the numbers of the rows of group k have at most n digits and leave the
\* column before the separator blank
C29_Fit(k, n) ==
  \A r \in C29_NumberRows(k) :
    /\ C29_NumberLen(layout[k].canvas[r]) <= n
    /\ Cell(layout[k].canvas, r - 1, n).ch = " "

\* C29 as stated: in literal line-number mode the gutter width computed
\* once for the whole report is sufficient: every line number written into
\* the gutter, for annotated lines, bridged unannotated lines and suggestion
\* lines (including lines a replacement adds beyond the end of the source),
\* has at most max_line_num_len decimal digits and never reaches the
\* separator column.
C29_NumbersFitGutter ==
  ~rd.anonymized_line_numbers
    => \A k \in 1..Len(layout) : C29_Fit(k, report_line_num_len(rd, groups))

\* what holds: the numbers of the lines of excerpts fit, and so do those of
\* a suggestion whose result has no line after the last line counted
C29_Counted(k) ==
  \A i \in 1..Len(groups[k].elements) :
    groups[k].elements[i].element = "Suggestion"
      => \A j \in 1..Len(layout[k].blocks) :
           block_line(layout[k].blocks[j].src, layout[k].blocks[j])
             + Len(str_lines(layout[k].blocks[j].complete)) - 1
           <= report_max_line_number(groups)

C29_CountedNumbersFitGutter ==
  ~rd.anonymized_line_numbers
    => \A k \in 1..Len(layout) :
         C29_Counted(k) => C29_Fit(k, report_line_num_len(rd, groups))

\* an excerpt with a bridged line numbered 9 and an annotated line numbered
\* 10 in a gutter of two columns
C29_BridgedNineAnnotatedTen ==
  /\ Len(layout) = 1
  /\ is_cause(groups[1].elements[1])
  /\ groups[1].elements[1].fold
  /\ report_line_num_len(rd, groups) = 2
  /\ \E r \in C29_NumberRows(1) :
       /\ r + 1 \in C29_NumberRows(1)
       /\ str_trim_start(row_text(layout[1].canvas[r]))[1] = Digit(9)
       /\ Take(str_trim_start(row_text(layout[1].canvas[r + 1])), 2) = <<Digit(1), Digit(0)>>
       /\ r + 2 \notin C29_NumberRows(1)

(***************************************************************************)
(* C30: num_decimal_digits over the machine word                           *)
(***************************************************************************)
\* the powers of ten below the k-th, as the limits are without wrapping
C30_PowersOfTen(k) == [i \in 1..k |-> 10 ^ i]

\* C30: num_decimal_digits(n) equals the number of digits of the decimal
\* representation of n for every value of the machine word (1 for n = 0,
\* MAX_DIGITS for the largest values): the limit compared against is never
\* a wrapped product, because the only wrapping multiplication happens
\* after the last comparison.
C30_DigitsOfEveryWord ==
  pc = "sized"
    => /\ layout[1].num_digits = Len(to_string(sn.line_start))
       /\ (sn.line_start = 0 => layout[1].num_digits = 1)
       /\ (sn.line_start = USIZE_MAX_16 => layout[1].num_digits = MAX_DIGITS_16)
       /\ layout[1].compared = C30_PowersOfTen(Len(layout[1].compared))
       /\ Len(layout[1].compared) < MAX_DIGITS_16

\* the largest value: four limits were compared, and lim has wrapped in the
\* multiplication after the last comparison
C30_LargestWordWrapsAfter ==
  /\ pc = "sized"
  /\ sn.line_start = USIZE_MAX_16
  /\ layout[1].num_digits = MAX_DIGITS_16
  /\ layout[1].compared = <<10, 100, 1000, 10000>>
  /\ layout[1].lim = 100000 - (USIZE_MAX_16 + 1)

=========================================================================
